---- MODULE Spec2Model ----
(***************************************************************************)
(* Model of the collaborator-suggestion endpoint                           *)
(* (src/collaborators-connector/function_app.py): term extraction, text    *)
(* scoring, the five source adapters, the aggregation steps and the        *)
(* request handler suggest_collaborators.                                  *)
(*                                                                         *)
(* Conventions.  A Python str is a sequence of one-character strings.      *)
(* Python's None is the reserved value None below.  A score is kept in     *)
(* tenths (2.0 is 20, 0.5 is 5, 0.3 is 3), so all score arithmetic is      *)
(* integer arithmetic.  A JSON value is a record [k, n, s, xs]: its kind,  *)
(* its number, its characters and its elements.                            *)
(***************************************************************************)
EXTENDS Integers, Sequences, FiniteSets, TLC

VARIABLES
    body,         \* the request body as received (never changes)
    world,        \* what the upstream services answer (never changes)
    pc,           \* position of the handler / of the function under check
    ideas,        \* handler local `ideas` (a JSON value)
    keywords,     \* handler local `keywords` (a JSON value)
    location,     \* handler local `location` (a JSON value)
    max_results,  \* handler local `max_results` (an integer)
    terms,        \* handler local `terms` (sequence of str)
    results,      \* handler local `results` (sequence of candidates)
    items,        \* adapter local: the records of the search call
    out,          \* adapter local `out`: candidates built so far
    user,         \* adapter local: the profile fetched for the current record
    deduped,      \* handler local `deduped`
    response,     \* the HTTP response, or the escaped exception
    calls,        \* outbound calls issued so far (names, in order)
    failed,       \* adapters whose run raised (logged and skipped)
    returned,     \* what each adapter that did not raise returned
    sm_text,      \* _score_match parameter `text` (a str)
    sm_score      \* _score_match local `score`, in tenths

vars == <<body, world, pc, ideas, keywords, location, max_results, terms, results,
          items, out, user, deduped, response, calls, failed, returned,
          sm_text, sm_score>>

-----------------------------------------------------------------------------
(* Python str primitives                                                   *)

None == <<"<None>">>

LowerLetters ==
    {"a","b","c","d","e","f","g","h","i","j","k","l","m",
     "n","o","p","q","r","s","t","u","v","w","x","y","z"}

UpperToLower ==
    ("A" :> "a") @@ ("B" :> "b") @@ ("C" :> "c") @@ ("D" :> "d") @@
    ("E" :> "e") @@ ("F" :> "f") @@ ("G" :> "g") @@ ("H" :> "h") @@
    ("I" :> "i") @@ ("J" :> "j") @@ ("K" :> "k") @@ ("L" :> "l") @@
    ("M" :> "m") @@ ("N" :> "n") @@ ("O" :> "o") @@ ("P" :> "p") @@
    ("Q" :> "q") @@ ("R" :> "r") @@ ("S" :> "s") @@ ("T" :> "t") @@
    ("U" :> "u") @@ ("V" :> "v") @@ ("W" :> "w") @@ ("X" :> "x") @@
    ("Y" :> "y") @@ ("Z" :> "z")

UpperLetters == DOMAIN UpperToLower

Digits == {"0","1","2","3","4","5","6","7","8","9"}

\* \w of the re module: letters, digits and the underscore
IsWordChar(c) == c \in LowerLetters \cup UpperLetters \cup Digits \cup {"_"}

\* \s of the re module, and what str.split() and str.strip() take as blank
IsSpace(c) == c \in {" ", "\t", "\n"}

\* str.lower() on one character
LowerChar(c) == IF c \in UpperLetters THEN UpperToLower[c] ELSE c

\* str.lower()
Lower(s) == [i \in 1..Len(s) |-> LowerChar(s[i])]

\* s[:n]
Take(s, n) == SubSeq(s, 1, IF n < Len(s) THEN n ELSE Len(s))

\* s[n:] for n >= 0
Drop(s, n) == SubSeq(s, n + 1, Len(s))

\* str.startswith at offset i (1-based)
MatchAt(t, term, i) ==
    /\ i + Len(term) - 1 <= Len(t)
    /\ \A j \in 1..Len(term) : t[i + j - 1] = term[j]

\* `term in t`
Contains(t, term) == \E i \in 1..(Len(t) + 1) : MatchAt(t, term, i)

\* t.count(term), term non-empty: non-overlapping occurrences, left to right
RECURSIVE CountFrom(_, _, _)
CountFrom(t, term, i) ==
    IF i + Len(term) - 1 > Len(t) THEN 0
    ELSE IF MatchAt(t, term, i) THEN 1 + CountFrom(t, term, i + Len(term))
    ELSE CountFrom(t, term, i + 1)

\* a count of all occurrences, overlapping ones included
Count_overlapping(t, term) ==
    Cardinality({i \in 1..Len(t) : MatchAt(t, term, i)})

Count(t, term) == CountFrom(t, term, 1)

\* sep.join(parts)
RECURSIVE Join(_, _)
Join(sep, parts) ==
    IF parts = <<>> THEN <<>>
    ELSE IF Len(parts) = 1 THEN parts[1]
    ELSE parts[1] \o sep \o Join(sep, Tail(parts))

\* s.split(): the maximal runs of non-blank characters
RECURSIVE SplitWs(_, _, _)
SplitWs(s, i, cur) ==
    IF i > Len(s) THEN (IF cur = <<>> THEN <<>> ELSE <<cur>>)
    ELSE IF IsSpace(s[i])
         THEN (IF cur = <<>> THEN <<>> ELSE <<cur>>) \o SplitWs(s, i + 1, <<>>)
         ELSE SplitWs(s, i + 1, Append(cur, s[i]))

\* re.split(r"[-/+]", w): the pieces between separators, empty ones included
RECURSIVE SplitSep(_, _, _)
SplitSep(w, i, cur) ==
    IF i > Len(w) THEN <<cur>>
    ELSE IF w[i] \in {"-", "/", "+"}
         THEN <<cur>> \o SplitSep(w, i + 1, <<>>)
         ELSE SplitSep(w, i + 1, Append(cur, w[i]))

\* str.strip()
RECURSIVE Strip(_)
Strip(w) ==
    IF w = <<>> THEN w
    ELSE IF IsSpace(w[1]) THEN Strip(Tail(w))
    ELSE IF IsSpace(w[Len(w)]) THEN Strip(SubSeq(w, 1, Len(w) - 1))
    ELSE w

-----------------------------------------------------------------------------
(* JSON values                                                             *)

JAbsent    == [k |-> "absent", n |-> 0, s |-> <<>>, xs |-> <<>>]
JNull      == [k |-> "null",   n |-> 0, s |-> <<>>, xs |-> <<>>]
JBool(b)   == [k |-> "bool",   n |-> IF b THEN 1 ELSE 0, s |-> <<>>, xs |-> <<>>]
JNum(i)    == [k |-> "num",    n |-> i, s |-> <<>>, xs |-> <<>>]
JStr(str)  == [k |-> "str",    n |-> 0, s |-> str,  xs |-> <<>>]
JList(els) == [k |-> "list",   n |-> 0, s |-> <<>>, xs |-> els]
\* an object used as a field value: only its number of keys matters
JObj(i)    == [k |-> "obj",    n |-> i, s |-> <<>>, xs |-> <<>>]

\* dict.get(key): an absent key reads as None
Get(v) == IF v.k = "absent" THEN JNull ELSE v

\* Python truthiness
Truthy(v) ==
    CASE v.k \in {"absent", "null"} -> FALSE
      [] v.k \in {"bool", "num", "obj"} -> v.n # 0
      [] v.k = "str"  -> v.s # <<>>
      [] v.k = "list" -> v.xs # <<>>

\* isinstance(x, str) and x.strip()
NonBlankStr(v) == v.k = "str" /\ Strip(v.s) # <<>>

-----------------------------------------------------------------------------
(* _build_terms                                                            *)

Str_and == <<"a","n","d">>
Str_llm == <<"l","l","m">>
Str_rag == <<"r","a","g">>
Str_gis == <<"g","i","s">>
Str_geospatial == <<"g","e","o","s","p","a","t","i","a","l">>
Str_langchain == <<"l","a","n","g","c","h","a","i","n">>
Str_chatbot == <<"c","h","a","t","b","o","t">>
Str_large_language_model ==
    <<"l","a","r","g","e"," ","l","a","n","g","u","a","g","e"," ","m","o","d","e","l">>
Str_retrieval_augmented_generation ==
    <<"r","e","t","r","i","e","v","a","l"," ","a","u","g","m","e","n","t","e","d"," ",
      "g","e","n","e","r","a","t","i","o","n">>
Str_geopandas == <<"g","e","o","p","a","n","d","a","s">>
Str_openstreetmap == <<"o","p","e","n","s","t","r","e","e","t","m","a","p">>
Str_osmnx == <<"o","s","m","n","x">>
Str_mapbox == <<"m","a","p","b","o","x">>

\* the stopword set of line 69
stop ==
    { Str_and, <<"o","r">>, <<"f","o","r">>, <<"t","h","e">>, <<"a">>, <<"a","n">>,
      <<"t","o">>, <<"o","f">>, <<"o","n">>, <<"i","n">>, <<"w","i","t","h">>,
      <<"b","y">>, <<"f","r","o","m">>, <<"a","t">>, <<"i","n","t","o">>,
      <<"o","v","e","r">>, <<"u","n","d","e","r">>, <<"a","c","r","o","s","s">> }

\* the cap of line 112
TermCap == 20

\* re.sub(r"[^\w\s\-+/]", " ", s)
DropPunctuation(s) ==
    [i \in 1..Len(s) |->
        IF IsWordChar(s[i]) \/ IsSpace(s[i]) \/ s[i] \in {"-", "+", "/"}
        THEN s[i] ELSE " "]

\* parts: every whitespace-separated word split on - / +
RECURSIVE PartsOf(_)
PartsOf(words) ==
    IF words = <<>> THEN <<>>
    ELSE SplitSep(words[1], 1, <<>>) \o PartsOf(Tail(words))

\* the filter of lines 78-81
\* a filter that compares the token with the stopwords as written
KeepToken_cased(w) == Len(w) >= 2 /\ w \notin stop

KeepToken(w) == Len(w) >= 2 /\ Lower(w) \notin stop

RECURSIVE FilterParts(_)
FilterParts(parts) ==
    IF parts = <<>> THEN <<>>
    ELSE (IF KeepToken(Strip(parts[1])) THEN <<Strip(parts[1])>> ELSE <<>>)
         \o FilterParts(Tail(parts))

\* add_tokens(s): the tokens one string appends
add_tokens(s) == FilterParts(PartsOf(SplitWs(DropPunctuation(s), 1, <<>>)))

\* the tokens of a list of JSON values; non-strings are skipped (line 87)
RECURSIVE TokensOf(_)
TokensOf(xs) ==
    IF xs = <<>> THEN <<>>
    ELSE (IF xs[1].k = "str" THEN add_tokens(xs[1].s) ELSE <<>>) \o TokensOf(Tail(xs))

\* a token followed by no alias
ExpandToken_none(t) == <<t>>

\* what one token contributes to `expanded` (lines 93-102)
ExpandToken(t) ==
    LET tl == Lower(t) IN
    <<t>>
    \o (IF tl = Str_llm THEN <<Str_large_language_model>> ELSE <<>>)
    \o (IF tl = Str_rag THEN <<Str_retrieval_augmented_generation>> ELSE <<>>)
    \o (IF tl \in {Str_geospatial, Str_gis}
        THEN <<Str_geopandas, Str_openstreetmap, Str_osmnx, Str_mapbox>> ELSE <<>>)
    \o (IF tl = Str_langchain THEN <<Str_chatbot>> ELSE <<>>)

\* the synonyms of the tokens, without the tokens
RECURSIVE Expand_synonyms(_)
Expand_synonyms(tokens) ==
    IF tokens = <<>> THEN <<>>
    ELSE Tail(ExpandToken(tokens[1])) \o Expand_synonyms(Tail(tokens))

\* an expansion that appends all synonyms after the last token
Expand_trailing(tokens) ==
    tokens \o Expand_synonyms(tokens)

RECURSIVE Expand(_)
Expand(tokens) ==
    IF tokens = <<>> THEN <<>>
    ELSE ExpandToken(tokens[1]) \o Expand(Tail(tokens))

\* lines 105-111: first occurrence of every lowercased key, in order
RECURSIVE DedupeTerms(_, _)
DedupeTerms(expanded, seen) ==
    IF expanded = <<>> THEN <<>>
    ELSE IF Lower(expanded[1]) \in seen
         THEN DedupeTerms(Tail(expanded), seen)
         ELSE <<expanded[1]>>
              \o DedupeTerms(Tail(expanded), seen \cup {Lower(expanded[1])})

\* _build_terms(ideas, extra_keywords); both are sequences of JSON values,
\* and an empty extra_keywords is falsy (line 85)
build_terms(ideaList, extra_keywords) ==
    LET tokens == TokensOf(ideaList)
                  \o (IF extra_keywords # <<>> THEN TokensOf(extra_keywords) ELSE <<>>)
    IN Take(DedupeTerms(Expand(tokens), {}), TermCap)

-----------------------------------------------------------------------------
(* _score_match, in tenths                                                 *)

ContainWeight == 20
CountWeight == 5

RECURSIVE ScoreTerms(_, _)
ScoreTerms(t, termList) ==
    IF termList = <<>> THEN 0
    ELSE (IF termList[1] = <<>> THEN 0
          ELSE LET term == Lower(termList[1]) IN
               (IF Contains(t, term) THEN ContainWeight ELSE 0)
               + Count(t, term) * CountWeight)
         + ScoreTerms(t, Tail(termList))

\* a scoring that charges every term its weight and refunds what matches
score_match_charging(text, termList) ==
    IF text = <<>> THEN 0
    ELSE ScoreTerms(Lower(text), termList) - ContainWeight * Len(termList)

score_match(text, termList) ==
    IF text = <<>> THEN 0 ELSE ScoreTerms(Lower(text), termList)

-----------------------------------------------------------------------------
(* Candidates and the aggregation functions                                *)

\* a candidate record as the adapters build it; username, profile_url,
\* location and the contact fields are a str or None; evidence is the strings
\* of the source's payload. The contact fields and the evidence are None and
\* empty unless the adapter sets them.
Cand(src, name, username, profile_url, loc, score) ==
    [source |-> src, name |-> name, username |-> username,
     profile_url |-> profile_url, location |-> loc, score |-> score,
     score_is |-> "num",
     public_email |-> None, blog |-> None, company |-> None, evidence |-> <<>>]

\* the candidate c with its "score" key null or absent (score_is tells which;
\* the number kept in score is then the default 0 of `.get("score", 0)`)
Unscored(c, how) == [c EXCEPT !.score = 0, !.score_is = how]

\* `x.get("score", 0)` is None
ScoreIsNone(c) == c.score_is = "null"

\* `x or ""`
OrEmpty(x) == IF x = None THEN <<>> ELSE x

\* the characters of a str, as iterating it yields them
CharsOf(s) == [i \in 1..Len(s) |-> <<s[i]>>]

\* the dict key of line 117: "||".join over the characters of
\* lower(profile_url) + "|" + lower(username)
DedupKey(it) ==
    Join(<<"|","|">>,
         CharsOf(Lower(OrEmpty(it.profile_url)) \o <<"|">> \o Lower(OrEmpty(it.username))))

\* position of key k in the insertion-ordered dict, 0 when absent
KeyIndex(bykey, k) ==
    IF \E i \in 1..Len(bykey) : bykey[i].k = k
    THEN CHOOSE i \in 1..Len(bykey) : bykey[i].k = k
    ELSE 0

\* an iteration that keeps the candidate seen first, whatever the scores
DedupeStep_first(bykey, it) ==
    LET k == DedupKey(it)
        i == KeyIndex(bykey, k)
    IN IF i # 0 THEN bykey ELSE Append(bykey, [k |-> k, v |-> it])

\* an iteration that also replaces on an equal score
DedupeStep_geq(bykey, it) ==
    LET k == DedupKey(it)
        i == KeyIndex(bykey, k)
    IN IF i # 0
       THEN (IF it.score >= bykey[i].v.score
             THEN [bykey EXCEPT ![i] = [k |-> k, v |-> it]]
             ELSE bykey)
       ELSE Append(bykey, [k |-> k, v |-> it])

\* an iteration that keeps the candidate seen last, whatever its score
DedupeStep_last(bykey, it) ==
    LET k == DedupKey(it)
        i == KeyIndex(bykey, k)
    IN IF i # 0
       THEN [bykey EXCEPT ![i] = [k |-> k, v |-> it]]
       ELSE Append(bykey, [k |-> k, v |-> it])

\* an iteration in which a better duplicate goes to the end of the dict
DedupeStep_moving(bykey, it) ==
    LET k == DedupKey(it)
        i == KeyIndex(bykey, k)
    IN IF i # 0
       THEN (IF it.score > bykey[i].v.score
             THEN Append(SubSeq(bykey, 1, i - 1) \o SubSeq(bykey, i + 1, Len(bykey)),
                         [k |-> k, v |-> it])
             ELSE bykey)
       ELSE Append(bykey, [k |-> k, v |-> it])

\* one iteration of the loop of lines 116-122
DedupeStep(bykey, it) ==
    LET k == DedupKey(it)
        i == KeyIndex(bykey, k)
    IN IF i # 0
       THEN (IF it.score > bykey[i].v.score
             THEN [bykey EXCEPT ![i] = [k |-> k, v |-> it]]
             ELSE bykey)
       ELSE Append(bykey, [k |-> k, v |-> it])

RECURSIVE DedupeLoop(_, _)
DedupeLoop(bykey, its) ==
    IF its = <<>> THEN bykey
    ELSE DedupeLoop(DedupeStep(bykey, its[1]), Tail(its))

\* no merging at all
dedupe_none(its) == its

\* the comparison of line 119 raises when one of the two scores is null
RECURSIVE DedupeRaisesFrom(_, _)
DedupeRaisesFrom(bykey, its) ==
    IF its = <<>> THEN FALSE
    ELSE LET i == KeyIndex(bykey, DedupKey(its[1]))
         IN IF i # 0 /\ (ScoreIsNone(its[1]) \/ ScoreIsNone(bykey[i].v))
            THEN TRUE
            ELSE DedupeRaisesFrom(DedupeStep(bykey, its[1]), Tail(its))

DedupeRaises(its) == DedupeRaisesFrom(<<>>, its)

\* _dedupe_keep_best(items): list(bykey.values())
dedupe_keep_best(its) ==
    LET bykey == DedupeLoop(<<>>, its)
    IN [i \in 1..Len(bykey) |-> bykey[i].v]

\* stable insertion into a list sorted by score, highest first
RECURSIVE InsertSorted(_, _)
InsertSorted(sorted, it) ==
    IF sorted = <<>> THEN <<it>>
    ELSE IF sorted[1].score >= it.score
         THEN <<sorted[1]>> \o InsertSorted(Tail(sorted), it)
         ELSE <<it>> \o sorted

RECURSIVE SortedDesc(_, _)
SortedDesc(acc, its) ==
    IF its = <<>> THEN acc
    ELSE SortedDesc(InsertSorted(acc, its[1]), Tail(its))

\* s[:n] of Python: a negative n drops the last -n elements
PySlice(s, n) ==
    IF n >= 0 THEN Take(s, n)
    ELSE IF Len(s) + n <= 0 THEN <<>> ELSE SubSeq(s, 1, Len(s) + n)

\* a cut without the sort
clip_unsorted(its, n) == PySlice(its, n)

\* sorted() of line 126 compares the keys of a list of two or more
\* elements, and a comparison with a null score raises
ClipRaises(its) ==
    Len(its) >= 2 /\ \E i \in 1..Len(its) : ScoreIsNone(its[i])

\* _clip(items, n): sorted(items, key=score, reverse=True)[:n]
clip(its, n) == PySlice(SortedDesc(<<>>, its), n)

LocationBonus == 5

\* whether the aggregation-time boost applies to candidate r (lines 441-442)
\* a containment test on the strings as written
LocationMatches_cased(r, loc) == Contains(OrEmpty(r.location), loc)

LocationMatches(r, loc) == Contains(Lower(OrEmpty(r.location)), Lower(loc))

\* an aggregation step without the boost
boost_none(its, loc) == its

\* a boost that also writes the request's location into the candidates it
\* boosts
boost_all_relocating(its, loc) ==
    [i \in 1..Len(its) |->
        IF LocationMatches(its[i], loc)
        THEN [its[i] EXCEPT !.score = @ + LocationBonus, !.location = loc]
        ELSE its[i]]

\* the loop of lines 440-443, location a str
boost_all(its, loc) ==
    [i \in 1..Len(its) |->
        IF LocationMatches(its[i], loc)
        THEN [its[i] EXCEPT !.score = @ + LocationBonus, !.score_is = "num"]
        ELSE its[i]]

\* `r.get("score", 0) + 0.5` of line 443 raises on a null score
BoostRaises(its, loc) ==
    \E i \in 1..Len(its) : LocationMatches(its[i], loc) /\ ScoreIsNone(its[i])

-----------------------------------------------------------------------------
(* The upstream services.  A world fixes what every endpoint answers when  *)
(* its call succeeds: per search endpoint the list of records it returns   *)
(* (named by short ids), with the detail of each record in the tables      *)
(* below.  Whether a call succeeds is decided call by call.                *)

\* `x or y` for a str-or-None x
Or(x, y) == IF x = None \/ x = <<>> THEN y ELSE x

\* no cap: the count itself
Min_uncapped(a, b) == a

\* min(a, b)
Min(a, b) == IF a < b THEN a ELSE b

DigitChars == <<"0","1","2","3","4","5","6","7","8","9">>

\* str(n) for n >= 0
RECURSIVE IntToStr(_)
IntToStr(n) ==
    IF n < 10 THEN <<DigitChars[n + 1]>>
    ELSE IntToStr(n \div 10) \o <<DigitChars[(n % 10) + 1]>>

\* s.split(sep)[0] for a one-character sep
RECURSIVE SplitFirst(_, _)
SplitFirst(s, sep) ==
    IF s = <<>> \/ s[1] = sep THEN <<>>
    ELSE <<s[1]>> \o SplitFirst(Tail(s), sep)

\* urllib.parse.quote_plus on the characters the model's names use
QuoteChar(c) ==
    IF IsWordChar(c) \/ c \in {".", "-", "~"} THEN <<c>>
    ELSE IF c = " " THEN <<"+">>
    ELSE IF c = "," THEN <<"%","2","C">>
    ELSE IF c = "|" THEN <<"%","7","C">>
    ELSE IF c = "/" THEN <<"%","2","F">>
    ELSE <<"%","3","F">>

RECURSIVE quote_plus(_)
quote_plus(s) ==
    IF s = <<>> THEN <<>> ELSE QuoteChar(s[1]) \o quote_plus(Tail(s))

Str_sofia == <<"S","o","f","i","a",","," ","B","u","l","g","a","r","i","a">>
Str_berlin == <<"B","e","r","l","i","n">>
Str_bulgaria == <<"b","u","l","g","a","r","i","a">>
Str_github_ann == <<"h","t","t","p","s",":","/","/","g","i","t","h","u","b",".","c","o","m","/","a","n","n">>

\* code-hosting accounts: the search item's login, the profile and the
\* repository names
GithubLogin(id) ==
    CASE id = "ann" -> <<"a","n","n">>
      [] id = "bob" -> <<"b","o","b">>
      [] id = "cat" -> <<"c","a","t">>
      [] OTHER -> None

GithubProfile(id) ==
    CASE id = "ann" ->
           [name |-> <<"A","n","n">>, html_url |-> Str_github_ann, email |-> None,
            blog |-> None, location |-> Str_sofia, company |-> None,
            bio |-> <<"c","h","a","t","b","o","t"," ","b","u","i","l","d","e","r">>]
      [] OTHER ->
           [name |-> None, html_url |-> None, email |-> None,
            blog |-> <<"r","a","g",".","d","e","v">>, location |-> None, company |-> <<"L","L","M"," ","L","a","b","s">>,
            bio |-> None]

GithubRepos(id) ==
    CASE id = "ann" -> << <<"l","l","m","-","c","h","a","t","b","o","t">>, <<"R","A","G">> >>
      [] id = "cat" -> << <<"r","1">>, <<"r","2">>, <<"r","3">>, <<"r","4">>, <<"r","5">>, <<"l","l","m">> >>
      [] OTHER -> <<>>

\* Q&A-site users: the search item and the names of the user's top tags
SEUser(id) ==
    CASE id = "u7" ->
           [user_id |-> 7, display_name |-> <<"A","n","n"," ","L","L","M">>,
            link |-> <<"h","t","t","p","s",":","/","/","s","t","a","c","k","o","v","e","r","f","l","o","w",".","c","o","m","/","u","s","e","r","s","/","7">>,
            location |-> Str_sofia, website_url |-> None]
      [] OTHER ->
           [user_id |-> 12, display_name |-> None, link |-> None,
            location |-> None, website_url |-> <<"r","a","g",".","d","e","v">>]

SETags(id) ==
    CASE id = "u7" -> << <<"c","h","a","t","b","o","t">>, <<"l","l","m">> >>
      [] OTHER -> <<>>

\* model-hub listing entries
HFModel(id) ==
    CASE id = "m1" ->
           [author |-> <<"a","n","n">>, modelId |-> <<"a","n","n","/","s","u","p","p","o","r","t","-","c","h","a","t","b","o","t">>,
            likes |-> 3, downloads |-> 0]
      [] id = "m2" ->
           [author |-> None, modelId |-> <<"b","o","b","/","L","L","M","-","r","a","g">>,
            likes |-> 0, downloads |-> 12]
      [] id = "m3" ->
           [author |-> <<"a","n","n">>, modelId |-> <<"a","n","n","/","l","l","m">>,
            likes |-> 0, downloads |-> 0]
      [] OTHER ->
           [author |-> None, modelId |-> <<>>, likes |-> 0, downloads |-> 0]

\* paper-index entries; an author is a plain name or an object
PWCAuthor(isdict, name, profile_url) ==
    [isdict |-> isdict, name |-> name, profile_url |-> profile_url]

PWCPaper(id) ==
    CASE id = "p1" ->
           [title |-> <<"S","u","p","p","o","r","t"," ","c","h","a","t","b","o","t"," ","w","i","t","h"," ","L","L","M">>, url_abs |-> <<"h","t","t","p","s",":","/","/","a","r","x","i","v",".","o","r","g","/","a","b","s","/","1">>,
            authors |-> << PWCAuthor(TRUE, <<"A","n","n">>, Str_github_ann),
                           PWCAuthor(FALSE, <<"B","o"," ","L","i">>, None),
                           PWCAuthor(TRUE, <<"C","y">>, None),
                           PWCAuthor(FALSE, <<"D","i">>, None) >>,
            repo_url |-> <<"h","t","t","p","s",":","/","/","g","i","t","h","u","b",".","c","o","m","/","a","n","n","/","l","l","m","-","c","h","a","t","b","o","t">>]
      [] OTHER ->
           [title |-> <<"C","u","s","t","o","m","e","r"," ","c","h","u","r","n">>, url_abs |-> None,
            authors |-> << PWCAuthor(FALSE, <<"B","o"," ","L","i">>, None) >>,
            repo_url |-> None]

\* dataset-hub entries
KaggleDataset(id) ==
    CASE id = "d1" ->
           [owner |-> <<"a","n","n">>, title |-> <<"C","u","s","t","o","m","e","r"," ","s","u","p","p","o","r","t"," ","c","h","a","t","s">>, slug |-> <<"c","h","a","t","s">>]
      [] id = "d2" ->
           [owner |-> <<"a","n","n">>, title |-> None, slug |-> <<"l","l","m">>]
      [] OTHER ->
           [owner |-> None, title |-> <<"L","L","M">>, slug |-> <<>>]

-----------------------------------------------------------------------------
(* The source adapters: what each builds from the answers of its calls     *)

Sp == <<" ">>

GithubRepoBonus == 3
SELocationBonus == 10
HFModelBonus == 2
PWCRepoBonus == 10
KaggleDatasetBonus == 3
BonusItems == 5
HFMaxModels == 40
HFTopModels == 5
PWCAuthorsPerPaper == 3

\* the candidate of lines 170-196, from the login, the profile and the
\* repository names
github_candidate(username, prof, repo_list, termList) ==
    LET text == Join(Sp, << OrEmpty(prof.bio), OrEmpty(prof.company),
                            OrEmpty(prof.blog), Join(Sp, repo_list) >>)
    IN [Cand("github", Or(prof.name, username), username,
             Or(prof.html_url, <<"h","t","t","p","s",":","/","/","g","i","t","h","u","b",".","c","o","m","/">> \o username),
             prof.location,
             score_match(text, termList) + Min(Len(repo_list), BonusItems) * GithubRepoBonus)
        EXCEPT !.public_email = prof.email, !.blog = prof.blog,
               !.company = prof.company, !.evidence = repo_list]

\* whether line 221 raises: a truthy location that is no str, read with .lower()
SELocationRaises(u, loc) == Truthy(loc) /\ Or(u.location, <<>>) # <<>> /\ loc.k # "str"

\* the candidate of lines 218-234, from the user record and the tag names
\* a Q&A candidate built without the adapter's own location bonus
se_candidate_unboosted(u, tag_names, termList, loc) ==
    LET text == Join(Sp, << OrEmpty(u.display_name), Join(Sp, tag_names) >>)
    IN [Cand("stackexchange", u.display_name, IntToStr(u.user_id), u.link,
             u.location, score_match(text, termList))
        EXCEPT !.blog = u.website_url, !.evidence = tag_names]

se_candidate(u, tag_names, termList, loc) ==
    LET text == Join(Sp, << OrEmpty(u.display_name), Join(Sp, tag_names) >>)
        boost == IF /\ Truthy(loc)
                    /\ loc.k = "str"
                    /\ Or(u.location, <<>>) # <<>>
                    /\ Contains(Lower(u.location), Lower(loc.s))
                 THEN SELocationBonus ELSE 0
    IN [Cand("stackexchange", u.display_name, IntToStr(u.user_id), u.link,
             u.location, score_match(text, termList) + boost)
        EXCEPT !.blog = u.website_url, !.evidence = tag_names]

\* author of line 251
HFAuthorOf(m) == Or(m.author, SplitFirst(m.modelId, "/"))

\* the authors in first-occurrence order (the keys of by_author)
RECURSIVE HFAuthors(_, _)
HFAuthors(models, seen) ==
    IF models = <<>> THEN <<>>
    ELSE LET a == HFAuthorOf(models[1]) IN
         IF a = <<>> \/ a \in seen THEN HFAuthors(Tail(models), seen)
         ELSE <<a>> \o HFAuthors(Tail(models), seen \cup {a})

\* by_author[author]
RECURSIVE HFModelsOf(_, _)
HFModelsOf(models, author) ==
    IF models = <<>> THEN <<>>
    ELSE (IF HFAuthorOf(models[1]) = author THEN <<models[1]>> ELSE <<>>)
         \o HFModelsOf(Tail(models), author)

\* text_blob of lines 262-267
RECURSIVE HFBlob(_)
HFBlob(amodels) ==
    IF amodels = <<>> THEN <<>>
    ELSE << OrEmpty(amodels[1].modelId), IntToStr(amodels[1].likes),
            IntToStr(amodels[1].downloads) >> \o HFBlob(Tail(amodels))

\* the candidate of lines 257-280; its evidence is the id, likes and
\* downloads of the author's first five models
hf_candidate(author, amodels, termList) ==
    [Cand("huggingface", author, author, <<"h","t","t","p","s",":","/","/","h","u","g","g","i","n","g","f","a","c","e",".","c","o","/">> \o author, None,
          score_match(Join(Sp, HFBlob(Take(amodels, HFTopModels))), termList)
          + Min(Len(amodels), BonusItems) * HFModelBonus)
     EXCEPT !.evidence = HFBlob(Take(amodels, HFTopModels))]

\* one candidate per listed model that has an author
search_huggingface_authors_per_model(models, termList) ==
    LET listed == SelectSeq(Take(models, HFMaxModels),
                            LAMBDA m : HFAuthorOf(m) # <<>>)
    IN [i \in 1..Len(listed) |->
            hf_candidate(HFAuthorOf(listed[i]), <<listed[i]>>, termList)]

\* search_huggingface_authors after its call returned `models`
search_huggingface_authors(models, termList) ==
    LET listed == Take(models, HFMaxModels)
        authors == HFAuthors(listed, {})
    IN [i \in 1..Len(authors) |->
            hf_candidate(authors[i], HFModelsOf(listed, authors[i]), termList)]

\* the candidate of lines 300-321 for one author of one paper
pwc_candidate(p, a, termList) ==
    [Cand("paperswithcode", a.name, None,
         IF a.isdict /\ Or(a.profile_url, <<>>) # <<>>
         THEN a.profile_url
         ELSE <<"h","t","t","p","s",":","/","/","p","a","p","e","r","s","w","i","t","h","c","o","d","e",".","c","o","m","/","s","e","a","r","c","h","?","q","_","a","u","t","h","o","r","=">> \o quote_plus(a.name),
         None,
         score_match(p.title \o Sp \o a.name, termList)
         + (IF Or(p.repo_url, <<>>) # <<>> THEN PWCRepoBonus ELSE 0))
     EXCEPT !.evidence = <<p.title, p.url_abs, p.repo_url>>]

\* search_paperswithcode_authors after its call returned `papers`
RECURSIVE search_paperswithcode_authors(_, _)
search_paperswithcode_authors(papers, termList) ==
    IF papers = <<>> THEN <<>>
    ELSE LET p == papers[1]
             firstAuthors == Take(p.authors, PWCAuthorsPerPaper)
         IN [i \in 1..Len(firstAuthors) |-> pwc_candidate(p, firstAuthors[i], termList)]
            \o search_paperswithcode_authors(Tail(papers), termList)

\* the owners in first-occurrence order (the keys of by_owner)
RECURSIVE KaggleOwners(_, _)
KaggleOwners(rows, seen) ==
    IF rows = <<>> THEN <<>>
    ELSE LET o == rows[1].owner IN
         IF Or(o, <<>>) = <<>> \/ o \in seen THEN KaggleOwners(Tail(rows), seen)
         ELSE <<o>> \o KaggleOwners(Tail(rows), seen \cup {o})

\* the titles of an owner's datasets that are truthy (line 351)
RECURSIVE KaggleTitles(_, _)
KaggleTitles(rows, owner) ==
    IF rows = <<>> THEN <<>>
    ELSE (IF rows[1].owner = owner /\ Or(rows[1].title, <<>>) # <<>>
          THEN <<rows[1].title>> ELSE <<>>)
         \o KaggleTitles(Tail(rows), owner)

\* info["count"] of an owner
RECURSIVE KaggleCount(_, _)
KaggleCount(rows, owner) ==
    IF rows = <<>> THEN 0
    ELSE (IF rows[1].owner = owner THEN 1 ELSE 0) + KaggleCount(Tail(rows), owner)

\* the candidate of lines 351-364; its evidence is the titles and the slugs
\* of the owner's first five datasets
kaggle_candidate(owner, rows, termList) ==
    LET top == Take(SelectSeq(rows, LAMBDA d : d.owner = owner), 5)
    IN [Cand("kaggle", owner, owner, <<"h","t","t","p","s",":","/","/","w","w","w",".","k","a","g","g","l","e",".","c","o","m","/">> \o owner, None,
             score_match(Join(Sp, KaggleTitles(rows, owner)), termList)
             + Min(KaggleCount(rows, owner), BonusItems) * KaggleDatasetBonus)
        EXCEPT !.evidence = [i \in 1..Len(top) |-> top[i].title]
                            \o [i \in 1..Len(top) |-> top[i].slug]]

\* search_kaggle_owners_by_datasets after dataset_list returned `ds`
search_kaggle_owners_by_datasets(ds, termList, max_rows) ==
    LET rows == PySlice(ds, max_rows)
        owners == KaggleOwners(rows, {})
    IN [i \in 1..Len(owners) |-> kaggle_candidate(owners[i], rows, termList)]

-----------------------------------------------------------------------------
(* The request handler suggest_collaborators                               *)

DEFAULT_MAX == 10
PER_SOURCE_CAP == 20
KaggleRowCap == 40

NoResponse == [status |-> 0, keys |-> {}, error |-> "", candidates |-> <<>>]

\* func.HttpResponse(json.dumps({"error": msg}), status_code=400)
ErrorResponse(msg) ==
    [status |-> 400, keys |-> {"error"}, error |-> msg, candidates |-> <<>>]

\* func.HttpResponse(json.dumps(body)): status 200 by default
OkResponse(ranked) ==
    [status |-> 200, keys |-> {"candidates", "meta"}, error |-> "", candidates |-> ranked]

\* all(isinstance(x, str) and x.strip() for x in ideas)
AllNonBlank(xs) == \A i \in 1..Len(xs) : NonBlankStr(xs[i])

\* the test without isinstance(ideas, list)
IdeasAccepted_anytype(v) == AllNonBlank(v.xs)

\* the test of line 402
IdeasAccepted(v) == v.k = "list" /\ AllNonBlank(v.xs)

\* `payload.get("keywords") or []`
KeywordsOrEmpty(v) == IF Truthy(v) THEN v ELSE JList(<<>>)

\* the characters of a str are all decimal digits (what int() parses here)
IsDigits(s) == s # <<>> /\ \A i \in 1..Len(s) : s[i] \in Digits

RECURSIVE StrToInt(_)
StrToInt(s) ==
    IF s = <<>> THEN 0
    ELSE 10 * StrToInt(SubSeq(s, 1, Len(s) - 1))
         + (CHOOSE d \in 0..9 : DigitChars[d + 1] = s[Len(s)])

\* `payload.get("max_results") or DEFAULT_MAX`
MaxResultsArg(v) == IF Truthy(v) THEN v ELSE JNum(DEFAULT_MAX)

\* whether int(x) raises (ValueError on a non-numeric str, TypeError on a
\* list or an object)
IntRaises(v) == v.k \in {"list", "obj"} \/ (v.k = "str" /\ ~IsDigits(v.s))

\* int(x) when it does not raise
IntOf(v) == IF v.k = "str" THEN StrToInt(v.s) ELSE v.n

\* an exception leaves the handler: no response is built
Escape ==
    /\ pc' = "raised"
    /\ response' = NoResponse

\* a rejection that writes the 400 and lets the handler go on
Reject_continuing(msg) ==
    /\ pc' = "terms"
    /\ response' = ErrorResponse(msg)

Reject(msg) ==
    /\ pc' = "done"
    /\ response' = ErrorResponse(msg)

\* lines 396-399
GetJson ==
    /\ pc = "get_json"
    /\ IF body.kind = "invalid"
       THEN Reject("Invalid JSON body")
       ELSE pc' = "ideas" /\ response' = response
    /\ UNCHANGED <<sm_text, sm_score, body, world, ideas, keywords, location, max_results, terms,
                   results, items, out, user, deduped, calls, failed, returned>>

\* lines 401-403; payload.get raises on a body that is no object
ValidateIdeas ==
    /\ pc = "ideas"
    /\ IF body.kind # "object"
       THEN Escape /\ ideas' = ideas
       ELSE /\ ideas' = Get(body.ideas)
            /\ IF IdeasAccepted(Get(body.ideas))
               THEN pc' = "keywords" /\ response' = response
               ELSE Reject("'ideas' must be a non-empty list of strings")
    /\ UNCHANGED <<sm_text, sm_score, body, world, keywords, location, max_results, terms,
                   results, items, out, user, deduped, calls, failed, returned>>

\* lines 405-407
ValidateKeywords ==
    /\ pc = "keywords"
    /\ keywords' = KeywordsOrEmpty(Get(body.keywords))
    /\ IF KeywordsOrEmpty(Get(body.keywords)).k = "list"
       THEN pc' = "params" /\ response' = response
       ELSE Reject("'keywords' must be a list of strings")
    /\ UNCHANGED <<sm_text, sm_score, body, world, ideas, location, max_results, terms,
                   results, items, out, user, deduped, calls, failed, returned>>

\* lines 409-410
ReadParams ==
    /\ pc = "params"
    /\ location' = Get(body.location)
    /\ IF IntRaises(MaxResultsArg(Get(body.max_results)))
       THEN Escape /\ max_results' = max_results
       ELSE /\ max_results' = IntOf(MaxResultsArg(Get(body.max_results)))
            /\ pc' = "terms"
            /\ response' = response
    /\ UNCHANGED <<sm_text, sm_score, body, world, ideas, keywords, terms,
                   results, items, out, user, deduped, calls, failed, returned>>

\* line 413
BuildTerms ==
    /\ pc = "terms"
    /\ terms' = build_terms(ideas.xs, keywords.xs)
    /\ pc' = "github_a"
    /\ UNCHANGED <<sm_text, sm_score, body, world, ideas, keywords, location, max_results,
                   results, items, out, user, deduped, response, calls, failed, returned>>

NoUser ==
    [name |-> None, html_url |-> None, email |-> None, blog |-> None,
     location |-> None, company |-> None, bio |-> None]

\* a failure that discards what the earlier adapters returned
AdapterRaise_discarding(name, nextpc) ==
    /\ failed' = failed \cup {name}
    /\ results' = <<>>
    /\ items' = <<>>
    /\ out' = <<>>
    /\ user' = NoUser
    /\ pc' = nextpc
    /\ UNCHANGED returned

\* a failure that hands over the candidates built before it
AdapterRaise_partial(name, nextpc) ==
    /\ failed' = failed \cup {name}
    /\ results' = results \o out
    /\ items' = <<>>
    /\ out' = <<>>
    /\ user' = NoUser
    /\ pc' = nextpc
    /\ UNCHANGED returned

\* a failure that gives up on the adapters still to come
AdapterRaise_aborting(name, nextpc) ==
    /\ failed' = failed \cup {name}
    /\ items' = <<>>
    /\ out' = <<>>
    /\ user' = NoUser
    /\ pc' = "boost"
    /\ UNCHANGED <<results, returned>>

\* the adapter raises: the handler's except logs it and goes on (lines 417-436)
AdapterRaise(name, nextpc) ==
    /\ failed' = failed \cup {name}
    /\ items' = <<>>
    /\ out' = <<>>
    /\ user' = NoUser
    /\ pc' = nextpc
    /\ UNCHANGED <<results, returned>>

\* the adapter returns cands: `results += ...`
AdapterReturn(name, cands, nextpc) ==
    /\ results' = results \o cands
    /\ returned' = Append(returned, [adapter |-> name, cands |-> cands])
    /\ items' = <<>>
    /\ out' = <<>>
    /\ user' = NoUser
    /\ pc' = nextpc
    /\ failed' = failed

\* a pass A that is followed by pass B whatever it found
GithubSearchA_both ==
    /\ pc = "github_a"
    /\ calls' = Append(calls, IF Truthy(location) THEN "github.search+location"
                              ELSE "github.search")
    /\ \E ok \in BOOLEAN :
         IF ok
         THEN /\ items' = world.github_a
              /\ pc' = "github_b"
              /\ UNCHANGED <<out, user, results, failed, returned>>
         ELSE AdapterRaise("github", "se_users")
    /\ UNCHANGED <<sm_text, sm_score, body, world, ideas, keywords, location, max_results, terms,
                   deduped, response>>

\* pass A of search_github_users (lines 141-151): the query carries the
\* location qualifier when a location is given
GithubSearchA ==
    /\ pc = "github_a"
    /\ calls' = Append(calls, IF Truthy(location) THEN "github.search+location"
                              ELSE "github.search")
    /\ \E ok \in BOOLEAN :
         IF ok
         THEN /\ items' = world.github_a
              /\ pc' = IF world.github_a = <<>> THEN "github_b" ELSE "github_user"
              /\ UNCHANGED <<out, user, results, failed, returned>>
         ELSE AdapterRaise("github", "se_users")
    /\ UNCHANGED <<sm_text, sm_score, body, world, ideas, keywords, location, max_results, terms,
                   deduped, response>>

\* pass B (lines 154-156): only when pass A found nothing, without location
GithubSearchB ==
    /\ pc = "github_b"
    /\ calls' = Append(calls, "github.search")
    /\ \E ok \in BOOLEAN :
         IF ok
         THEN /\ items' = world.github_b
              /\ pc' = "github_user"
              /\ UNCHANGED <<out, user, results, failed, returned>>
         ELSE AdapterRaise("github", "se_users")
    /\ UNCHANGED <<sm_text, sm_score, body, world, ideas, keywords, location, max_results, terms,
                   deduped, response>>

\* lines 160-162: an item without login is skipped
GithubSkip ==
    /\ pc = "github_user"
    /\ items # <<>>
    /\ Or(GithubLogin(items[1]), <<>>) = <<>>
    /\ items' = Tail(items)
    /\ UNCHANGED <<sm_text, sm_score, body, world, pc, ideas, keywords, location, max_results, terms,
                   results, out, user, deduped, response, calls, failed, returned>>

\* line 163: the profile call of the current item
GithubUserCall ==
    /\ pc = "github_user"
    /\ items # <<>>
    /\ Or(GithubLogin(items[1]), <<>>) # <<>>
    /\ calls' = Append(calls, "github.user")
    /\ \E ok \in BOOLEAN :
         IF ok
         THEN /\ user' = GithubProfile(items[1])
              /\ pc' = "github_repos"
              /\ UNCHANGED <<items, out, results, failed, returned>>
         ELSE AdapterRaise("github", "se_users")
    /\ UNCHANGED <<sm_text, sm_score, body, world, ideas, keywords, location, max_results, terms,
                   deduped, response>>

\* lines 164-196: the repositories call, then the candidate is appended
GithubReposCall ==
    /\ pc = "github_repos"
    /\ calls' = Append(calls, "github.repos")
    /\ \E ok \in BOOLEAN :
         IF ok
         THEN /\ out' = Append(out, github_candidate(GithubLogin(items[1]), user,
                                                     GithubRepos(items[1]), terms))
              /\ items' = Tail(items)
              /\ user' = NoUser
              /\ pc' = "github_user"
              /\ UNCHANGED <<results, failed, returned>>
         ELSE AdapterRaise("github", "se_users")
    /\ UNCHANGED <<sm_text, sm_score, body, world, ideas, keywords, location, max_results, terms,
                   deduped, response>>

\* line 197, and `results +=` of line 418
GithubReturn ==
    /\ pc = "github_user"
    /\ items = <<>>
    /\ AdapterReturn("github", out, "se_users")
    /\ UNCHANGED <<sm_text, sm_score, body, world, ideas, keywords, location, max_results, terms,
                   deduped, response, calls>>

\* line 207: the user search of search_stackexchange_users
SEUsersCall ==
    /\ pc = "se_users"
    /\ calls' = Append(calls, "stackexchange.users")
    /\ \E ok \in BOOLEAN :
         IF ok
         THEN /\ items' = world.se
              /\ pc' = "se_tags"
              /\ UNCHANGED <<out, user, results, failed, returned>>
         ELSE AdapterRaise("stackexchange", "hf")
    /\ UNCHANGED <<sm_text, sm_score, body, world, ideas, keywords, location, max_results, terms,
                   deduped, response>>

\* lines 210-234: the top-tags call of the current user, then the candidate;
\* line 221 raises on a location that is no str
SETagsCall ==
    /\ pc = "se_tags"
    /\ items # <<>>
    /\ calls' = Append(calls, "stackexchange.top-tags")
    /\ \E ok \in BOOLEAN :
         IF ok /\ ~SELocationRaises(SEUser(items[1]), location)
         THEN /\ out' = Append(out, se_candidate(SEUser(items[1]), SETags(items[1]),
                                                 terms, location))
              /\ items' = Tail(items)
              /\ UNCHANGED <<pc, user, results, failed, returned>>
         ELSE AdapterRaise("stackexchange", "hf")
    /\ UNCHANGED <<sm_text, sm_score, body, world, ideas, keywords, location, max_results, terms,
                   deduped, response>>

\* line 235, and `results +=` of line 422
SEReturn ==
    /\ pc = "se_tags"
    /\ items = <<>>
    /\ AdapterReturn("stackexchange", out, "hf")
    /\ UNCHANGED <<sm_text, sm_score, body, world, ideas, keywords, location, max_results, terms,
                   deduped, response, calls>>

\* search_huggingface_authors: one call (line 246)
HFCall ==
    /\ pc = "hf"
    /\ calls' = Append(calls, "huggingface.models")
    /\ \E ok \in BOOLEAN :
         IF ok
         THEN AdapterReturn("huggingface",
                  search_huggingface_authors([i \in 1..Len(world.hf) |-> HFModel(world.hf[i])], terms), "pwc")
         ELSE AdapterRaise("huggingface", "pwc")
    /\ UNCHANGED <<sm_text, sm_score, body, world, ideas, keywords, location, max_results, terms,
                   deduped, response>>

\* search_paperswithcode_authors: one call (line 289)
PWCCall ==
    /\ pc = "pwc"
    /\ calls' = Append(calls, "paperswithcode.papers")
    /\ \E ok \in BOOLEAN :
         IF ok
         THEN AdapterReturn("paperswithcode",
                  search_paperswithcode_authors([i \in 1..Len(world.pwc) |-> PWCPaper(world.pwc[i])], terms),
                  "kaggle")
         ELSE AdapterRaise("paperswithcode", "kaggle")
    /\ UNCHANGED <<sm_text, sm_score, body, world, ideas, keywords, location, max_results, terms,
                   deduped, response>>

\* search_kaggle_owners_by_datasets: nothing is called when KAGGLE_ENABLED is
\* false; a failure of dataset_list is caught inside (line 365) and `out`,
\* still empty, is returned
KaggleCall ==
    /\ pc = "kaggle"
    /\ \E ok \in BOOLEAN :
         IF ~world.kaggle_enabled
         THEN /\ calls' = calls
              /\ AdapterReturn("kaggle", <<>>, "boost")
         ELSE /\ calls' = Append(calls, "kaggle.dataset_list")
              /\ IF ok
                 THEN AdapterReturn("kaggle",
                          search_kaggle_owners_by_datasets(
                              [i \in 1..Len(world.kaggle) |-> KaggleDataset(world.kaggle[i])], terms,
                              Min(KaggleRowCap, max_results * 2)),
                          "boost")
                 ELSE /\ failed' = failed \cup {"kaggle"}
                      /\ results' = results \o out
                      /\ returned' = Append(returned, [adapter |-> "kaggle", cands |-> out])
                      /\ pc' = "boost"
                      /\ UNCHANGED <<items, out, user>>
    /\ UNCHANGED <<sm_text, sm_score, body, world, ideas, keywords, location, max_results, terms,
                   deduped, response>>

\* the boost applied after the duplicates were dropped
LocationBoost_deduped ==
    /\ pc = "boost"
    /\ results' = IF Truthy(location) /\ location.k = "str"
                  THEN boost_all(dedupe_keep_best(results), location.s)
                  ELSE dedupe_keep_best(results)
    /\ pc' = "dedupe"
    /\ UNCHANGED <<sm_text, sm_score, body, world, ideas, keywords, location, max_results, terms,
                   items, out, user, deduped, response, calls, failed, returned>>

\* lines 438-443; location.lower() raises on a truthy location that is no str
LocationBoost ==
    /\ pc = "boost"
    /\ IF \/ Truthy(location) /\ location.k # "str" /\ results # <<>>
          \/ Truthy(location) /\ location.k = "str"
                 /\ BoostRaises(results, location.s)
       THEN Escape /\ results' = results
       ELSE /\ results' = IF Truthy(location) /\ location.k = "str"
                          THEN boost_all(results, location.s) ELSE results
            /\ pc' = "dedupe"
            /\ response' = response
    /\ UNCHANGED <<sm_text, sm_score, body, world, ideas, keywords, location, max_results, terms,
                   items, out, user, deduped, calls, failed, returned>>

\* line 446
Dedupe ==
    /\ pc = "dedupe"
    /\ IF DedupeRaises(results)
       THEN Escape /\ deduped' = deduped
       ELSE /\ deduped' = dedupe_keep_best(results)
            /\ pc' = "clip"
            /\ response' = response
    /\ UNCHANGED <<sm_text, sm_score, body, world, ideas, keywords, location, max_results, terms,
                   results, items, out, user, calls, failed, returned>>

\* lines 447-456
ClipRespond ==
    /\ pc = "clip"
    /\ IF ClipRaises(deduped)
       THEN Escape
       ELSE /\ response' = OkResponse(clip(deduped, max_results))
            /\ pc' = "done"
    /\ UNCHANGED <<sm_text, sm_score, body, world, ideas, keywords, location, max_results, terms,
                   results, items, out, user, deduped, calls, failed, returned>>

-----------------------------------------------------------------------------
(* Specification of the handler: one request, from its body to its response *)

MaxRecords == 2

EmptyWorld ==
    [github_a |-> <<>>, github_b |-> <<>>, se |-> <<>>, hf |-> <<>>, pwc |-> <<>>,
     kaggle |-> <<>>, kaggle_enabled |-> TRUE]

\* one search endpoint answering one record more
Deliveries ==
    { <<"github_a", "ann">>, <<"github_a", "bob">>, <<"github_a", "ghost">>,
      <<"github_b", "bob">>, <<"se", "u7">>, <<"hf", "m1">>, <<"hf", "m2">>,
      <<"pwc", "p1">>, <<"pwc", "p2">>, <<"kaggle", "d1">> }

Deliver(w, d) == [w EXCEPT ![d[1]] = Append(@, d[2])]

\* the worlds whose endpoints answer at most k records in all
RECURSIVE WorldsWith(_)
WorldsWith(k) ==
    IF k = 0 THEN {EmptyWorld}
    ELSE LET prev == WorldsWith(k - 1)
         IN prev \cup {Deliver(w, d) : w \in prev, d \in Deliveries}

Worlds ==
    {[w EXCEPT !.kaggle_enabled = e] : w \in WorldsWith(MaxRecords), e \in BOOLEAN}

\* answers with more related items than a bonus counts: an account with six
\* repositories, an author with six listed models (and a model without
\* author), an owner with six datasets; and a listing longer than the adapter
\* reads
BulkWorlds ==
    { [github_a |-> <<"cat", "ghost">>, github_b |-> <<>>, se |-> <<"u7">>,
       hf |-> <<"m3", "m3", "m2", "m9", "m3", "m3", "m3", "m3">>,
       pwc |-> <<"p1", "p2">>,
       kaggle |-> <<"d1", "d2", "d2", "d2", "d2", "d2", "d9">>,
       kaggle_enabled |-> TRUE],
      [github_a |-> <<>>, github_b |-> <<"cat", "bob">>, se |-> <<"u7">>,
       hf |-> [i \in 1..(HFMaxModels + 1) |-> IF i <= HFMaxModels THEN "m3" ELSE "m2"],
       pwc |-> <<"p2">>, kaggle |-> <<"d2", "d1">>, kaggle_enabled |-> TRUE] }

\* every source answers one record
BaseWorld ==
    [github_a |-> <<"ann">>, github_b |-> <<>>, se |-> <<"u7">>, hf |-> <<"m1">>,
     pwc |-> <<"p1">>, kaggle |-> <<"d1">>, kaggle_enabled |-> TRUE]

Body(kind, i, k, l, m) ==
    [kind |-> kind, ideas |-> i, keywords |-> k, location |-> l, max_results |-> m]

BaseIdeas == JList(<< JStr(<<"L","L","M"," ","c","h","a","t","b","o","t"," ","f","o","r"," ","c","u","s","t","o","m","e","r"," ","s","u","p","p","o","r","t">>) >>)
BaseLocation == JStr(Str_bulgaria)
BaseMaxResults == JNum(5)

BaseBody == Body("object", BaseIdeas, JAbsent, BaseLocation, BaseMaxResults)

IdeasValues ==
    { BaseIdeas, JAbsent, JNull, JStr(<<"n","o","t","-","a","-","l","i","s","t">>), JNum(5), JObj(1), JList(<<>>),
      JList(<< JStr(<<" ">>) >>), JList(<< JStr(<<"r","a","g">>), JStr(<<>>) >>),
      JList(<< JStr(<<"r","a","g">>), JNum(5) >>), JList(<< JNull >>) }

KeywordsValues ==
    { JAbsent, JNull, JList(<<>>), JList(<< JStr(<<"r","a","g">>) >>),
      JList(<< JNum(5), JStr(<<"G","I","S">>) >>),
      JStr(<<>>), JStr(<<"r","a","g">>), JNum(0), JNum(5), JBool(FALSE), JBool(TRUE),
      JObj(0), JObj(1) }

LocationValues == { BaseLocation, JAbsent, JNull, JStr(<<>>), JNum(5) }

MaxResultsValues ==
    { BaseMaxResults, JAbsent, JNull, JNum(0), JNum(1), JNum(-1), JStr(<<"a","b","c">>),
      JStr(<<"2">>), JBool(TRUE), JList(<< JNum(2) >>) }

\* a body that is no JSON, bodies that are JSON but no object, and objects
Bodies ==
    { Body(kd, JAbsent, JAbsent, JAbsent, JAbsent) :
          kd \in {"invalid", "array", "string", "number", "null"} }
    \cup { Body("object", i, k, BaseLocation, BaseMaxResults) :
               i \in IdeasValues, k \in KeywordsValues }
    \cup { Body("object", BaseIdeas, JAbsent, l, m) :
               l \in LocationValues, m \in MaxResultsValues }

\* the locals before the handler has set them
Locals ==
    /\ ideas = JNull
    /\ keywords = JNull
    /\ location = JNull
    /\ max_results = 0
    /\ terms = <<>>
    /\ results = <<>>
    /\ items = <<>>
    /\ out = <<>>
    /\ user = NoUser
    /\ deduped = <<>>
    /\ response = NoResponse
    /\ calls = <<>>
    /\ failed = {}
    /\ returned = <<>>
    /\ sm_text = <<>>
    /\ sm_score = 0

\* every body against the base world, and the base body against every world
Init ==
    /\ body \in Bodies
    /\ world \in Worlds \cup BulkWorlds \cup {BaseWorld}
    /\ body = BaseBody \/ world = BaseWorld
    /\ pc = "get_json"
    /\ Locals

Next ==
    \/ GetJson \/ ValidateIdeas \/ ValidateKeywords \/ ReadParams \/ BuildTerms
    \/ GithubSearchA \/ GithubSearchB \/ GithubSkip \/ GithubUserCall
    \/ GithubReposCall \/ GithubReturn
    \/ SEUsersCall \/ SETagsCall \/ SEReturn
    \/ HFCall \/ PWCCall \/ KaggleCall
    \/ LocationBoost \/ Dedupe \/ ClipRespond

Spec == Init /\ [][Next]_vars

-----------------------------------------------------------------------------
(* Specification of _build_terms alone: line 413 on bounded inputs         *)

MaxIdeas == 3
MaxStrLen == 4

\* all sequences over S of length at most n
RECURSIVE SeqsUpTo(_, _)
SeqsUpTo(S, n) ==
    IF n = 0 THEN {<<>>}
    ELSE LET prev == SeqsUpTo(S, n - 1)
         IN prev \cup {Append(s, x) : s \in prev, x \in S}

Phrases ==
    { <<"G","I","S","/","g","e","o","s","p","a","t","i","a","l"," ","m","a","p","p","i","n","g">>,
      <<"L","L","M","-","p","o","w","e","r","e","d"," ","R","A","G"," ","a","p","p">>,
      <<"l","a","n","g","c","h","a","i","n"," ","c","h","a","t","b","o","t"," ","f","o","r"," ","t","h","e"," ","O","p","e","n","-","S","o","u","r","c","e"," ","v","e","c","t","o","r"," ","d","b"," ","t","o","o","l","s"," ","s","e","a","r","c","h","!">>,
      <<"T","h","e"," ","r","a","g"," ","o","f"," ","a"," ","l","l","m",","," ","x"," ","+"," ","A","N","D","/","o","r">>,
      <<" ">>,
      <<"a","-","b","_","c"," ","d","1">> }

ShortAlphabet == {"a", "N", "-", " ", "!"}

JStrs(strs) == [i \in 1..Len(strs) |-> JStr(strs[i])]

\* idea lists: up to MaxIdeas phrases, or one string of up to MaxStrLen
\* characters of the short alphabet
TermIdeas ==
    { JList(JStrs(ps)) : ps \in SeqsUpTo(Phrases, MaxIdeas) }
    \cup { JList(<< JStr(s) >>) : s \in SeqsUpTo(ShortAlphabet, MaxStrLen) }

TermKeywords ==
    { JList(<<>>), JList(<< JNum(5) >>), JList(<< JStr(<<"R","a","g">>) >>),
      JList(<< JNum(5), JStr(<<"a","n"," ","o","s","m","n","x","-","m","a","p">>) >>) }

InitTerms ==
    /\ body = BaseBody
    /\ world = EmptyWorld
    /\ pc = "terms"
    /\ ideas \in TermIdeas
    /\ keywords \in TermKeywords
    /\ location = JNull
    /\ max_results = DEFAULT_MAX
    /\ terms = <<>> /\ results = <<>> /\ items = <<>> /\ out = <<>>
    /\ user = NoUser /\ deduped = <<>> /\ response = NoResponse
    /\ calls = <<>> /\ failed = {} /\ returned = <<>>
    /\ sm_text = <<>> /\ sm_score = 0

NextTerms == BuildTerms

SpecTerms == InitTerms /\ [][NextTerms]_vars

-----------------------------------------------------------------------------
(* Specification of the aggregation steps alone: lines 438-456 on bounded  *)
(* combined candidate lists                                                *)

MaxCands == 3
MaxLimit == 2

CandPool ==
    { Cand("github", <<"A">>, <<"a","n","n">>, <<"h","/","a","n","n">>, Str_sofia, 30),
      Cand("kaggle", <<"B">>, <<"A","n","n">>, <<"H","/","A","N","N">>, None, 32),
      Cand("huggingface", <<"C">>, <<"a","n","n">>, <<"h","/","a","n","n">>, None, 30),
      Cand("paperswithcode", <<"D">>, None, <<"h","/","a","n","n">>, None, 10),
      Cand("stackexchange", <<"E">>, <<"7">>, <<"s","/","7">>, Str_sofia, 32),
      Cand("github", <<"F">>, <<"y">>, <<"x","|">>, None, 30),
      Cand("github", <<"G">>, <<"|","y">>, <<"x">>, None, 10),
      Cand("paperswithcode", <<"H">>, None, None, None, 50),
      Cand("stackexchange", <<"I">>, <<"9">>, <<"s","/","9">>, Str_berlin, 20) }

InitAgg ==
    /\ body = BaseBody
    /\ world = EmptyWorld
    /\ pc = "boost"
    /\ ideas = BaseIdeas
    /\ keywords = JList(<<>>)
    /\ location \in {JNull, JStr(<<>>), BaseLocation}
    /\ max_results \in 1..MaxLimit
    /\ terms = <<>>
    /\ results \in SeqsUpTo(CandPool, MaxCands)
    /\ items = <<>> /\ out = <<>> /\ user = NoUser /\ deduped = <<>>
    /\ response = NoResponse /\ calls = <<>> /\ failed = {}
    /\ returned = <<[adapter |-> "any", cands |-> results]>>
    /\ sm_text = <<>> /\ sm_score = 0

NextAgg == LocationBoost \/ Dedupe \/ ClipRespond

SpecAgg == InitAgg /\ [][NextAgg]_vars

-----------------------------------------------------------------------------
(* _score_match on its own: one call on a text and a term list             *)

MaxTextLen == 4
MaxTerms == 2

Str_developer_tools ==
    <<"d","e","v","e","l","o","p","e","r"," ","t","o","o","l","s"," ","f","o","r"," ","R","A","G">>

ScoreAlphabet == {"a", "A", "b"}

\* the texts: the empty one, every short string, and a sentence
ScoreTexts == SeqsUpTo(ScoreAlphabet, MaxTextLen) \cup {Str_developer_tools}

\* the terms: an empty one, overlapping ones, mixed case
ScoreTermPool == { <<>>, <<"a">>, <<"a","a">>, <<"A","b">>, <<"r","a","g">> }

\* the call `score = _score_match(text, terms)` (lines 53-65)
ScoreMatch ==
    /\ pc = "score"
    /\ sm_score' = score_match(sm_text, terms)
    /\ pc' = "done"
    /\ UNCHANGED <<sm_text, body, world, ideas, keywords, location, max_results,
                   terms, results, items, out, user, deduped, response, calls,
                   failed, returned>>

InitScore ==
    /\ body = BaseBody
    /\ world = EmptyWorld
    /\ pc = "score"
    /\ sm_text \in ScoreTexts
    /\ terms \in SeqsUpTo(ScoreTermPool, MaxTerms)
    /\ sm_score = 0
    /\ ideas = BaseIdeas
    /\ keywords = JList(<<>>)
    /\ location = JNull
    /\ max_results = DEFAULT_MAX
    /\ results = <<>> /\ items = <<>> /\ out = <<>> /\ user = NoUser
    /\ deduped = <<>> /\ response = NoResponse
    /\ calls = <<>> /\ failed = {} /\ returned = <<>>

NextScore == ScoreMatch

SpecScore == InitScore /\ [][NextScore]_vars

-----------------------------------------------------------------------------
(* The aggregation steps on candidates that lack fields                    *)

\* candidates whose profile_url, username, location or score is null or
\* absent, next to complete ones
LoosePool ==
    { Cand("github", <<"A">>, <<"a","n","n">>, <<"h","/","a","n","n">>, Str_sofia, 30),
      Cand("paperswithcode", <<"H">>, None, None, None, 50),
      Unscored(Cand("stackexchange", <<"J">>, <<"7">>, <<"s","/","7">>, Str_sofia, 0), "null"),
      Unscored(Cand("github", <<"K">>, <<"a","n","n">>, <<"h","/","a","n","n">>, None, 0), "null"),
      Unscored(Cand("kaggle", <<"L">>, None, None, None, 0), "absent"),
      Unscored(Cand("kaggle", <<"M">>, <<"z">>, <<"k","/","z">>, Str_sofia, 0), "absent"),
      Unscored(Cand("huggingface", <<"N">>, <<"n">>, None, None, 0), "null") }

InitAggLoose ==
    /\ body = BaseBody
    /\ world = EmptyWorld
    /\ pc = "boost"
    /\ ideas = BaseIdeas
    /\ keywords = JList(<<>>)
    /\ location \in {JNull, BaseLocation}
    /\ max_results \in 1..MaxLimit
    /\ terms = <<>>
    /\ results \in SeqsUpTo(LoosePool, MaxCands)
    /\ items = <<>> /\ out = <<>> /\ user = NoUser /\ deduped = <<>>
    /\ response = NoResponse /\ calls = <<>> /\ failed = {} /\ returned = <<>>
    /\ sm_text = <<>> /\ sm_score = 0

SpecAggLoose == InitAggLoose /\ [][NextAgg]_vars

-----------------------------------------------------------------------------
(* Properties                                                              *)

\* the scores of a candidate list, in order
Scores(cs) == [i \in 1..Len(cs) |-> cs[i].score]

\* the elements of a sequence
Elems(s) == {s[i] : i \in 1..Len(s)}

\* a request as section 3 of the specification defines it: ideas a non-empty
\* list of non-blank strings, keywords absent or a list, location absent or a
\* string, max_results absent or a positive integer
ValidRequest(b) ==
    /\ b.kind = "object"
    /\ b.ideas.k = "list" /\ b.ideas.xs # <<>> /\ AllNonBlank(b.ideas.xs)
    /\ b.keywords.k \in {"absent", "list"}
    /\ b.location.k \in {"absent", "str"}
    /\ b.max_results.k = "absent" \/ (b.max_results.k = "num" /\ b.max_results.n > 0)

\* the lists the adapters returned, concatenated in the order of their return
RECURSIVE Flatten(_)
Flatten(rs) == IF rs = <<>> THEN <<>> ELSE rs[1].cands \o Flatten(Tail(rs))

Adapters == {"github", "stackexchange", "huggingface", "paperswithcode", "kaggle"}

\* C1: the terms _build_terms returns are at most 20, pairwise different
\* ignoring case, never a stopword (ignoring case) and never shorter than 2
\* characters.
C1_TermsBounded ==
    pc = "github_a" =>
        /\ Len(terms) <= 20
        /\ \A i, j \in 1..Len(terms) : i # j => Lower(terms[i]) # Lower(terms[j])
        /\ \A i \in 1..Len(terms) : Lower(terms[i]) \notin stop /\ Len(terms[i]) >= 2

\* a call whose expanded tokens held duplicates and, deduplicated, were more
\* than 20, so that the cap cut the list
C1_Witness ==
    /\ pc = "github_a"
    /\ Len(terms) = 20
    /\ LET ex == Expand(TokensOf(ideas.xs) \o TokensOf(keywords.xs))
       IN /\ Len(DedupeTerms(ex, {})) > 20
          /\ Len(ex) > Len(DedupeTerms(ex, {}))

\* C2: after boost, dedupe and clip with a positive limit the response list is
\* sorted by score, highest first, holds min(limit, number of deduplicated
\* candidates) of the deduplicated candidates, and no deduplicated candidate
\* left out scores strictly higher than a returned one.
C2_RankedAndClipped ==
    (pc = "done" /\ response.status = 200 /\ max_results > 0) =>
        LET ranked == response.candidates IN
        /\ \A i, j \in 1..Len(ranked) : i < j => ranked[i].score >= ranked[j].score
        /\ Len(ranked) = Min(max_results, Len(deduped))
        /\ Elems(ranked) \subseteq Elems(deduped)
        /\ \A d \in Elems(deduped) \ Elems(ranked) :
               \A r \in Elems(ranked) : d.score <= r.score

\* scores 1.0, 5.0, 3.0 with limit 2: the 5.0 candidate, then the 3.0 one
C2_Witness ==
    /\ pc = "done"
    /\ max_results = 2
    /\ Scores(deduped) = <<10, 50, 30>>
    /\ Scores(response.candidates) = <<50, 30>>

\* C3: _dedupe_keep_best returns exactly one candidate per dedup key of its
\* input, a candidate of the input whose score is the highest among the input
\* candidates with that key.
C3_OnePerKeyBest ==
    pc = "clip" =>
        /\ Elems(deduped) \subseteq Elems(results)
        /\ \A r \in Elems(results) :
               /\ Cardinality({i \in 1..Len(deduped) :
                                   DedupKey(deduped[i]) = DedupKey(r)}) = 1
               /\ \A i \in 1..Len(deduped) :
                      DedupKey(deduped[i]) = DedupKey(r) => deduped[i].score >= r.score

\* two candidates with the same profile_url and username, the lower score
\* first: only the higher-scored one is kept
C3_Witness ==
    /\ pc = "clip"
    /\ Len(results) = 2
    /\ results[1].profile_url = results[2].profile_url
    /\ results[1].username = results[2].username
    /\ results[1].score < results[2].score
    /\ deduped = <<results[2]>>


\* C4 as stated: the candidates of a 200 response hold no two entries with the
\* same non-empty profile_url.
C4_NoSharedProfileUrl ==
    (pc = "done" /\ response.status = 200) =>
        \A i, j \in 1..Len(response.candidates) :
            (i # j /\ response.candidates[i].profile_url = response.candidates[j].profile_url)
                => Or(response.candidates[i].profile_url, <<>>) = <<>>

\* C4 as amended: the candidates of a 200 response hold no two entries with
\* the same profile_url and the same username, both compared ignoring case and
\* an absent one read as empty.
C4_NoSharedUrlAndUsername ==
    (pc = "done" /\ response.status = 200) =>
        \A i, j \in 1..Len(response.candidates) :
            i # j =>
                \/ Lower(OrEmpty(response.candidates[i].profile_url))
                       # Lower(OrEmpty(response.candidates[j].profile_url))
                \/ Lower(OrEmpty(response.candidates[i].username))
                       # Lower(OrEmpty(response.candidates[j].username))

\* two combined candidates shared profile_url and username, and the response
\* holds one of them only
C4_Witness ==
    /\ pc = "done"
    /\ response.status = 200
    /\ \E i, j \in 1..Len(results) :
           /\ i < j
           /\ results[i].profile_url = results[j].profile_url
           /\ results[i].username = results[j].username
           /\ Cardinality({k \in 1..Len(response.candidates) :
                  response.candidates[k].profile_url = results[i].profile_url}) = 1

\* C5: whatever adapters fail during a valid request, no exception leaves the
\* handler, the response is a 200, and the list handed to the aggregation
\* steps is exactly what the adapters that did not fail returned, every one of
\* them having returned.
C5_FailuresIsolated ==
    ValidRequest(body) =>
        /\ pc # "raised"
        /\ pc = "done" => response.status = 200
        /\ pc = "boost" =>
               /\ results = Flatten(returned)
               /\ \A a \in Adapters \ failed :
                      \E i \in 1..Len(returned) : returned[i].adapter = a

\* a 200 with candidates although two adapters or more failed
C5_Witness ==
    /\ pc = "done"
    /\ ValidRequest(body)
    /\ Cardinality(failed) >= 2
    /\ response.status = 200
    /\ response.candidates # <<>>

\* C6: an adapter one of whose calls failed contributes no candidate to the
\* combined list.
C6_FailedContributesNothing ==
    pc = "boost" =>
        \A i \in 1..Len(results) : results[i].source \notin failed

\* the code-hosting adapter failed on its second account, after the candidate
\* of the first one was built
C6_Witness ==
    /\ pc = "boost"
    /\ "github" \in failed
    /\ Cardinality({i \in 1..Len(calls) : calls[i] = "github.repos"}) = 2

\* C7 as stated: an ideas field that is an empty list, or a list holding a
\* blank string or an element that is no string, ends in a 400.
C7_BadIdeasRejected ==
    (/\ body.kind = "object"
     /\ body.ideas.k = "list"
     /\ body.ideas.xs = <<>> \/ ~AllNonBlank(body.ideas.xs)
     /\ pc \notin {"get_json", "ideas"})
        => (pc = "done" /\ response.status = 400)

\* C8: an ideas field that is missing or no list ends in a 400 whose body has a
\* non-empty error and no candidates key.
C8_MissingIdeasRejected ==
    (/\ body.kind = "object"
     /\ body.ideas.k # "list"
     /\ pc \notin {"get_json", "ideas"})
        => /\ pc = "done"
           /\ response.status = 400
           /\ response.error # ""
           /\ "error" \in response.keys
           /\ "candidates" \notin response.keys

\* the request {"ideas": "not-a-list"} answered
C8_Witness ==
    /\ pc = "done"
    /\ body.kind = "object"
    /\ body.ideas.k = "str"
    /\ response.status = 400

\* C9 as stated: with valid ideas, a keywords field that is present and no
\* list ends in a 400.
C9_NonListKeywordsRejected ==
    (/\ ValidRequest([body EXCEPT !.keywords = JAbsent])
     /\ body.keywords.k \notin {"absent", "null", "list"}
     /\ pc \notin {"get_json", "ideas", "keywords"})
        => (pc = "done" /\ response.status = 400)

\* C10 as stated: no exception leaves the handler, and every response is a 200
\* with a candidates array or a 400.
C10_AlwaysAnswers ==
    /\ pc # "raised"
    /\ pc = "done" =>
           \/ response.status = 200 /\ "candidates" \in response.keys
           \/ response.status = 400

\* C11: a 400 is only ever written by the three validation steps, and when it
\* is written no term has been extracted, no adapter has run and no outbound
\* call has been issued; nothing happens after it.
C11_NoWorkBeforeReject ==
    [][response'.status = 400 =>
          /\ pc \in {"get_json", "ideas", "keywords"}
          /\ pc' = "done"
          /\ terms' = <<>>
          /\ calls' = <<>>
          /\ returned' = <<>>
          /\ failed' = {}
          /\ results' = <<>>]_vars

\* a request rejected at the last validation, that of keywords, after its
\* ideas were accepted
C11_Witness ==
    /\ pc = "done"
    /\ response.status = 400
    /\ IdeasAccepted(ideas)
    /\ keywords.k = "str"
    /\ calls = <<>>

\* C12 as stated: in a 200 response the limit is positive, it is the request's
\* max_results when that is a number and 10 when it is absent, and the
\* response holds at most that many candidates.
C12_LimitPositive ==
    (pc = "done" /\ response.status = 200) =>
        /\ max_results > 0
        /\ body.max_results.k = "num" => max_results = body.max_results.n
        /\ body.max_results.k = "absent" => max_results = DEFAULT_MAX
        /\ Len(response.candidates) <= max_results

\* C13: the aggregation-time boost step adds exactly 0.5 to the score of every
\* combined candidate whose location is non-null and contains the request's
\* (non-empty) location ignoring case, and changes nothing else: no other
\* score, no other field, not the order, not the length.
C13_BoostExactlyMatching ==
    [][(pc = "boost" /\ pc' = "dedupe") =>
          /\ Len(results') = Len(results)
          /\ \A i \in 1..Len(results) :
                 results'[i] =
                     [results[i] EXCEPT !.score =
                          @ + (IF /\ location.k = "str"
                                  /\ location.s # <<>>
                                  /\ results[i].location # None
                                  /\ Contains(Lower(results[i].location),
                                              Lower(location.s))
                               THEN 5 ELSE 0)]]_vars

\* location "bulgaria": a candidate located "Sofia, Bulgaria" went from 3.0 to
\* 3.5 while one located "Berlin" kept its 2.0 and one without location its 5.0
C13_Witness ==
    /\ pc = "dedupe"
    /\ location = BaseLocation
    /\ \E i, j, k \in 1..Len(results) :
           /\ results[i].location = Str_sofia /\ results[i].score = 35
           /\ results[j].location = Str_berlin /\ results[j].score = 20
           /\ results[k].location = None /\ results[k].score = 50

\* the text-match score of the Q&A user 7, whose location is
\* "Sofia, Bulgaria": _score_match over display name and tag names (line 220)
SETextScore ==
    score_match(Join(Sp, << OrEmpty(SEUser("u7").display_name),
                            Join(Sp, SETags("u7")) >>), terms)

\* the candidate c is the one of the Q&A user 7
IsSEUser7(c) == c.source = "stackexchange" /\ c.username = <<"7">>

\* C14 as stated: with request location "bulgaria" the Q&A candidate located
\* "Sofia, Bulgaria" is returned with its text-match score plus 0.5.
C14_SingleHalfPoint ==
    (pc = "done" /\ response.status = 200 /\ location = BaseLocation) =>
        \A i \in 1..Len(response.candidates) :
            IsSEUser7(response.candidates[i])
                => response.candidates[i].score = SETextScore + 5

\* C14 as amended: that candidate is returned with its text-match score plus
\* 1.5, the adapter's own 1.0 and the aggregation step's 0.5, each once.
C14_BothBonusesOnce ==
    (pc = "done" /\ response.status = 200 /\ location = BaseLocation) =>
        \A i \in 1..Len(response.candidates) :
            IsSEUser7(response.candidates[i])
                => response.candidates[i].score = SETextScore + 15

\* the response to a request with location "bulgaria" holds that candidate
C14_Witness ==
    /\ pc = "done"
    /\ response.status = 200
    /\ location = BaseLocation
    /\ \E i \in 1..Len(response.candidates) :
           /\ IsSEUser7(response.candidates[i])
           /\ response.candidates[i].location = Str_sofia

\* C15: after the boost step, a Q&A candidate whose location contains the
\* request location scores its text match plus 1.5, and a matching candidate
\* of any other source scores what its adapter returned plus 0.5.
C15_BoostsStack ==
    (pc = "dedupe" /\ location.k = "str" /\ location.s # <<>>) =>
        \A i \in 1..Len(results) :
            (/\ results[i].location # None
             /\ Contains(Lower(results[i].location), Lower(location.s)))
                => IF results[i].source = "stackexchange"
                   THEN IsSEUser7(results[i])
                        /\ results[i].score = SETextScore + 15
                   ELSE results[i].score = Flatten(returned)[i].score + 5

\* a combined list holding a matching Q&A candidate and a matching
\* code-hosting candidate, both boosted
C15_Witness ==
    /\ pc = "dedupe"
    /\ location = BaseLocation
    /\ \E i, j \in 1..Len(results) :
           /\ results[i].source = "stackexchange" /\ results[i].location = Str_sofia
           /\ results[i].score = SETextScore + 15
           /\ results[j].source = "github" /\ results[j].location = Str_sofia
           /\ results[j].score = Flatten(returned)[j].score + 5

\* the sum of a sequence of integers
RECURSIVE SumSeq(_)
SumSeq(s) == IF s = <<>> THEN 0 ELSE s[1] + SumSeq(Tail(s))

\* the largest number of pairwise non-overlapping occurrences of term in t
NonOverlapping(t, term) ==
    LET occ == {i \in 1..Len(t) : MatchAt(t, term, i)}
        free(S) == \A i, j \in S : i < j => j - i >= Len(term)
    IN CHOOSE n \in 0..Len(t) :
           /\ \E S \in SUBSET occ : free(S) /\ Cardinality(S) = n
           /\ \A S \in SUBSET occ : free(S) => Cardinality(S) <= n

\* what the scorer is specified to give for one term, in tenths
TermScore(t, term) ==
    IF term = <<>> THEN 0
    ELSE (IF \E i \in 1..Len(t) : MatchAt(Lower(t), Lower(term), i)
          THEN 20 ELSE 0)
         + 5 * NonOverlapping(Lower(t), Lower(term))

\* C16: _score_match(text, terms) is the sum over the non-empty terms of 2.0
\* when the lowered term occurs in the lowered text plus 0.5 per
\* non-overlapping occurrence; one occurrence of one term gives 2.5 and an
\* empty text gives 0.0.
C16_ScoreIsSum ==
    (pc = "done" /\ response = NoResponse) =>
        /\ sm_score = SumSeq([i \in 1..Len(terms) |-> TermScore(sm_text, terms[i])])
        /\ sm_text = <<>> => sm_score = 0
        /\ (sm_text = Str_developer_tools /\ terms = << Str_rag >>) => sm_score = 25

\* the call _score_match("developer tools for RAG", ["rag"]) returned 2.5
C16_Witness ==
    /\ pc = "done"
    /\ sm_text = Str_developer_tools
    /\ terms = << Str_rag >>
    /\ sm_score = 25

Str_llm_powered_rag_app ==
    <<"L","L","M","-","p","o","w","e","r","e","d"," ","R","A","G"," ","a","p","p">>

\* C17: _build_terms(["LLM-powered RAG app"], no keywords) holds "LLM",
\* "powered", "RAG" and "app" as separate entries, and the expansions
\* "large language model" and "retrieval augmented generation".
C17_ExampleTerms ==
    (/\ pc = "github_a"
     /\ ideas = JList(<< JStr(Str_llm_powered_rag_app) >>)
     /\ keywords = JList(<<>>))
        => \A t \in { <<"L","L","M">>, <<"p","o","w","e","r","e","d">>,
                      <<"R","A","G">>, <<"a","p","p">>,
                      Str_large_language_model,
                      Str_retrieval_augmented_generation } :
               Cardinality({i \in 1..Len(terms) : terms[i] = t}) = 1

\* that call has returned, with six terms
C17_Witness ==
    /\ pc = "github_a"
    /\ ideas = JList(<< JStr(Str_llm_powered_rag_app) >>)
    /\ keywords = JList(<<>>)
    /\ Len(terms) = 6

\* the rearrangements of a sequence
Perms(s) ==
    LET n == Len(s)
        bij == {p \in [1..n -> 1..n] : \A i, j \in 1..n : p[i] = p[j] => i = j}
    IN {[i \in 1..n |-> s[p[i]]] : p \in bij}

\* C18: had the combined candidates come in any other order, dedupe and clip
\* would have returned the same sequence of scores, and any candidate returned
\* in place of another would score the same as a different candidate of the
\* combined list.
C18_OrderInsensitive ==
    (pc = "done" /\ response.status = 200) =>
        \A q \in Perms(results) :
            LET o == clip(dedupe_keep_best(q), max_results) IN
            /\ Scores(o) = Scores(response.candidates)
            /\ \A c \in Elems(o) \ Elems(response.candidates) :
                   \E d \in Elems(results) : d # c /\ d.score = c.score

\* a combined list of which another order returns other candidates, with the
\* same scores
C18_Witness ==
    /\ pc = "done"
    /\ response.status = 200
    /\ \E q \in Perms(results) :
           /\ clip(dedupe_keep_best(q), max_results) # response.candidates
           /\ Scores(clip(dedupe_keep_best(q), max_results)) = Scores(response.candidates)

\* C19 as stated: of two candidates, _dedupe_keep_best returns one exactly
\* when their profile_url are equal ignoring case and their username are
\* equal ignoring case, an absent one read as the empty string.
C19_MergedIffFieldsEqual ==
    (pc = "clip" /\ Len(results) = 2) =>
        (Len(deduped) = 1
            <=> /\ Lower(OrEmpty(results[1].profile_url))
                     = Lower(OrEmpty(results[2].profile_url))
                /\ Lower(OrEmpty(results[1].username))
                     = Lower(OrEmpty(results[2].username)))

\* C20: every candidate _dedupe_keep_best returns is, among the input
\* candidates with its key and the highest score of that key, the one that
\* comes first in the input.
C20_TiesKeepFirst ==
    pc = "clip" =>
        \A k \in 1..Len(deduped) :
            LET group == {i \in 1..Len(results) :
                              DedupKey(results[i]) = DedupKey(deduped[k])}
                best == {i \in group :
                             \A j \in group : results[j].score <= results[i].score}
            IN /\ best # {}
               /\ deduped[k] = results[CHOOSE i \in best : \A j \in best : i <= j]

\* two different candidates with one key and one score: the first is kept
C20_Witness ==
    /\ pc = "clip"
    /\ Len(results) = 2
    /\ results[1] # results[2]
    /\ DedupKey(results[1]) = DedupKey(results[2])
    /\ results[1].score = results[2].score
    /\ deduped = << results[1] >>

\* C21 as stated: on candidates whose profile_url, username, location or
\* score is absent or null the aggregation steps never raise, and candidates
\* whose profile_url and username are equal once an absent one is read as the
\* empty string are merged into one.
C21_AggregationNeverRaises ==
    /\ pc # "raised"
    /\ pc = "clip" =>
           \A i \in 1..Len(results) :
               Cardinality({k \in 1..Len(deduped) :
                   /\ Lower(OrEmpty(deduped[k].profile_url))
                          = Lower(OrEmpty(results[i].profile_url))
                   /\ Lower(OrEmpty(deduped[k].username))
                          = Lower(OrEmpty(results[i].username))}) = 1

-----------------------------------------------------------------------------
\* C22: every candidate an adapter has built or returned, every candidate of
\* the combined list and every candidate of the response has a score of zero
\* or more.
C22_ScoresNonNegative ==
    /\ \A c \in Elems(out) : c.score >= 0
    /\ \A c \in Elems(Flatten(returned)) : c.score >= 0
    /\ \A c \in Elems(results) : c.score >= 0
    /\ \A c \in Elems(deduped) : c.score >= 0
    /\ \A c \in Elems(response.candidates) : c.score >= 0

\* a response with candidates after all five adapters returned some
C22_Witness ==
    /\ pc = "done"
    /\ \A a \in Adapters :
           \E i \in 1..Len(returned) :
               returned[i].adapter = a /\ returned[i].cands # <<>>
    /\ Len(response.candidates) >= 2

-----------------------------------------------------------------------------
\* the handler's stages in the order of its code: the validation steps, term
\* extraction, the five adapters, the three aggregation steps, the response
Stage(p) ==
    CASE p = "get_json" -> 0
      [] p = "ideas" -> 1
      [] p = "keywords" -> 2
      [] p = "params" -> 3
      [] p = "terms" -> 4
      [] p \in {"github_a", "github_b", "github_user", "github_repos"} -> 5
      [] p \in {"se_users", "se_tags"} -> 6
      [] p = "hf" -> 7
      [] p = "pwc" -> 8
      [] p = "kaggle" -> 9
      [] p = "boost" -> 10
      [] p = "dedupe" -> 11
      [] p = "clip" -> 12
      [] p = "done" -> 13
      [] OTHER -> 14

\* the adapter of a stage, and the position an invocation of it starts at
AdapterStage(a) ==
    CASE a = "github" -> 5
      [] a = "stackexchange" -> 6
      [] a = "huggingface" -> 7
      [] a = "paperswithcode" -> 8
      [] a = "kaggle" -> 9

AdapterEntry(a) ==
    CASE a = "github" -> "github_a"
      [] a = "stackexchange" -> "se_users"
      [] a = "huggingface" -> "hf"
      [] a = "paperswithcode" -> "pwc"
      [] a = "kaggle" -> "kaggle"

\* how often an adapter has handed a list to the handler
Returns(rs, a) == Cardinality({i \in 1..Len(rs) : rs[i].adapter = a})

\* how often an outbound call was issued
Issued(cs, what) == Cardinality({i \in 1..Len(cs) : cs[i] \in what})

\* C23: for a valid request every step stays in its stage or moves to the next
\* one, so term extraction, each adapter and each aggregation step run once
\* and in this order; an adapter is entered at its first statement; before the
\* adapters nothing is called; while the adapters run, the later ones have
\* neither returned nor failed and nothing is aggregated; when the aggregation
\* starts every adapter has returned once or failed once and has issued its
\* first call once, and the aggregation calls no adapter; the response is
\* written by the last step only.
C23_OneRunInOrder ==
    [][ValidRequest(body) =>
          /\ Stage(pc') \in {Stage(pc), Stage(pc) + 1}
          /\ Stage(pc') <= 13
          /\ \A a \in Adapters :
                 /\ Stage(pc') = AdapterStage(a) /\ Stage(pc) # AdapterStage(a)
                        => pc' = AdapterEntry(a)
                 /\ Stage(pc') <= AdapterStage(a) /\ ~(a = "kaggle" /\ pc' = "boost")
                        => a \notin failed' /\ Returns(returned', a) = 0
                 /\ Stage(pc') > AdapterStage(a)
                        => IF a \in failed' /\ a # "kaggle"
                           THEN Returns(returned', a) = 0
                           ELSE Returns(returned', a) = 1
          /\ Stage(pc') <= 4 => calls' = <<>> /\ terms' = terms
          /\ Stage(pc') >= 5 => terms' = build_terms(ideas'.xs, keywords'.xs)
          /\ Stage(pc') <= 10 => deduped' = <<>> /\ response' = NoResponse
          /\ Stage(pc') <= 9 => results' = Flatten(returned')
          /\ Stage(pc') >= 10 =>
                 /\ Issued(calls', {"github.search", "github.search+location"}) \in {1, 2}
                 /\ Issued(calls', {"stackexchange.users"}) = 1
                 /\ Issued(calls', {"huggingface.models"}) = 1
                 /\ Issued(calls', {"paperswithcode.papers"}) = 1
                 /\ Issued(calls', {"kaggle.dataset_list"})
                        = (IF world.kaggle_enabled THEN 1 ELSE 0)
          /\ Stage(pc) >= 10 =>
                 calls' = calls /\ failed' = failed /\ returned' = returned
          /\ deduped' # deduped => pc = "dedupe" /\ pc' = "clip"
          /\ response' # response => pc = "clip" /\ pc' = "done"]_vars

\* a response sent after the first and the third adapter failed and the other
\* three returned candidates
C23_Witness ==
    /\ pc = "done"
    /\ ValidRequest(body)
    /\ failed = {"github", "huggingface"}
    /\ \A a \in Adapters \ failed :
           \E i \in 1..Len(returned) :
               returned[i].adapter = a /\ returned[i].cands # <<>>
    /\ response.status = 200
    /\ response.candidates # <<>>

-----------------------------------------------------------------------------
\* what the boost adds to candidate c for the request's location
BonusOf(c) ==
    IF /\ location.k = "str"
       /\ location.s # <<>>
       /\ c.location # None
       /\ Contains(Lower(c.location), Lower(location.s))
    THEN 5 ELSE 0

\* C24: the deduplication compares boosted scores. Every candidate kept is a
\* candidate of the combined list with its bonus added, and no candidate of
\* the combined list with the same key has a higher score with its own bonus
\* added.
C24_DedupeComparesBoosted ==
    pc = "clip" =>
        LET raw == Flatten(returned) IN
        \A k \in 1..Len(deduped) :
            \E i \in 1..Len(raw) :
                /\ deduped[k] = [raw[i] EXCEPT !.score = @ + BonusOf(raw[i])]
                /\ \A j \in 1..Len(raw) :
                       DedupKey(raw[j]) = DedupKey(raw[i])
                           => raw[j].score + BonusOf(raw[j]) <= deduped[k].score

\* the candidate kept had the lower score before the boost: 3.0 against 3.2,
\* and 3.5 against 3.2 after it
C24_Witness ==
    /\ pc = "clip"
    /\ location = BaseLocation
    /\ \E k \in 1..Len(deduped) :
           \E j \in 1..Len(Flatten(returned)) :
               /\ DedupKey(Flatten(returned)[j]) = DedupKey(deduped[k])
               /\ deduped[k].score = 35
               /\ BonusOf(deduped[k]) = 5
               /\ Flatten(returned)[j].score = 32

-----------------------------------------------------------------------------
\* the synonym rules: what follows a token in the expanded sequence
SynonymsOf(t) ==
    CASE Lower(t) = <<"l","l","m">> -> << Str_large_language_model >>
      [] Lower(t) = <<"r","a","g">> -> << Str_retrieval_augmented_generation >>
      [] Lower(t) \in {<<"g","e","o","s","p","a","t","i","a","l">>, <<"g","i","s">>}
            -> << Str_geopandas, Str_openstreetmap, Str_osmnx, Str_mapbox >>
      [] Lower(t) = <<"l","a","n","g","c","h","a","i","n">> -> << Str_chatbot >>
      [] OTHER -> <<>>

\* where the i-th token stands when every earlier token is followed by its
\* synonyms
RECURSIVE PosOf(_, _)
PosOf(tokens, i) ==
    IF i = 1 THEN 1
    ELSE PosOf(tokens, i - 1) + 1 + Len(SynonymsOf(tokens[i - 1]))

\* the entries of ex from position i on that no earlier entry equals ignoring
\* case
RECURSIVE FirstsFrom(_, _)
FirstsFrom(ex, i) ==
    IF i > Len(ex) THEN <<>>
    ELSE (IF \E j \in 1..(i - 1) : Lower(ex[j]) = Lower(ex[i]) THEN <<>> ELSE <<ex[i]>>)
         \o FirstsFrom(ex, i + 1)

\* the tokens of a call, in the order the ideas and then the keywords give them
TokensOfCall ==
    TokensOf(ideas.xs) \o (IF keywords.xs # <<>> THEN TokensOf(keywords.xs) ELSE <<>>)

\* C25: in the expanded sequence every token stands in the order of the
\* tokens, directly followed by the synonyms of its rule, once per token and
\* with nothing else in between; the list returned is the first 20 entries of
\* the expanded sequence without the entries that repeat an earlier one
\* ignoring case.
C25_ExpansionInPlace ==
    pc = "github_a" =>
        LET tokens == TokensOfCall
            ex == Expand(tokens)
            n == Len(tokens)
        IN /\ Len(ex) = (IF n = 0 THEN 0
                         ELSE PosOf(tokens, n) + Len(SynonymsOf(tokens[n])))
           /\ \A i \in 1..n :
                  /\ ex[PosOf(tokens, i)] = tokens[i]
                  /\ \A k \in 1..Len(SynonymsOf(tokens[i])) :
                         ex[PosOf(tokens, i) + k] = SynonymsOf(tokens[i])[k]
           /\ terms = Take(FirstsFrom(ex, 1), 20)

\* a call with the token of one rule twice in different case ("LLM", "llm"),
\* another rule's token in between, and more than 20 expanded entries of which
\* some repeat earlier ones
C25_Witness ==
    /\ pc = "github_a"
    /\ LET tokens == TokensOfCall IN
       /\ \E i, j, k \in 1..Len(tokens) :
              /\ i < j /\ j < k
              /\ tokens[i] = <<"L","L","M">>
              /\ Lower(tokens[j]) = <<"r","a","g">>
              /\ tokens[k] = <<"l","l","m">>
       /\ Len(Expand(tokens)) > 20
       /\ Len(terms) < Len(Expand(tokens))

-----------------------------------------------------------------------------
\* the user-search queries among the outbound calls, in the order issued
GithubSearches(cs) ==
    SelectSeq(cs, LAMBDA c : c \in {"github.search", "github.search+location"})

\* C26: the code-hosting adapter issues one or two search queries. The first
\* carries the location qualifier exactly when the request's location is
\* truthy; the second never carries it. The second is issued exactly when the
\* first was answered without items: the step after the first query leads to
\* the second if and only if the first did not fail and found nothing, the
\* second query is issued from there and from nowhere else, and once the
\* adapter is over, one query with an empty first answer means that this
\* first query failed.
C26_SecondSearchIffEmpty ==
    [][LET s == GithubSearches(calls')
           n == Len(s)
       IN /\ n <= 2
          /\ n >= 1 => s[1] = (IF Truthy(location') THEN "github.search+location"
                               ELSE "github.search")
          /\ n = 2 => s[2] = "github.search"
          /\ pc = "github_a" =>
                 /\ GithubSearches(calls) = <<>> /\ n = 1
                 /\ pc' = "github_b" <=> ("github" \notin failed' /\ world.github_a = <<>>)
                 /\ pc' = "github_b" => items' = <<>>
          /\ pc = "github_b" => Len(GithubSearches(calls)) = 1 /\ n = 2
          /\ pc \notin {"github_a", "github_b"} => s = GithubSearches(calls)
          /\ pc' = "github_b" => pc = "github_a"
          /\ Stage(pc') >= 6 /\ Stage(pc') <= 13 /\ Stage(pc) >= 5 =>
                 /\ n >= 1
                 /\ n = 2 => world.github_a = <<>>
                 /\ (n = 1 /\ world.github_a = <<>>) =>
                        /\ "github" \in failed'
                        /\ Issued(calls', {"github.user", "github.repos"}) = 0]_vars

\* both queries were issued, the first with the location qualifier, and the
\* second found the account the candidate was built from
C26_Witness ==
    /\ pc = "se_users"
    /\ GithubSearches(calls) = <<"github.search+location", "github.search">>
    /\ "github" \notin failed
    /\ Len(results) = 1
    /\ results[1].source = "github"

-----------------------------------------------------------------------------
\* a count of related items as a bonus counts it
Capped(n) == IF n > 5 THEN 5 ELSE n

\* the accounts the code-hosting adapter builds candidates from: the items of
\* the answer it uses that have a login
GithubAccounts ==
    SelectSeq(IF world.github_a # <<>> THEN world.github_a ELSE world.github_b,
              LAMBDA id : Or(GithubLogin(id), <<>>) # <<>>)

\* bio, company, blog and repository names of an account
GithubText(id) ==
    Join(Sp, << OrEmpty(GithubProfile(id).bio), OrEmpty(GithubProfile(id).company),
                OrEmpty(GithubProfile(id).blog), Join(Sp, GithubRepos(id)) >>)

\* the models the model-hub adapter reads, and those of one author
HFListed == Take([i \in 1..Len(world.hf) |-> HFModel(world.hf[i])], 40)

HFModelsBy(author) == SelectSeq(HFListed, LAMBDA m : HFAuthorOf(m) = author)

\* the dataset rows the dataset-hub adapter reads, and those of one owner
KaggleRows ==
    PySlice([i \in 1..Len(world.kaggle) |-> KaggleDataset(world.kaggle[i])],
            IF max_results * 2 > 40 THEN 40 ELSE max_results * 2)

KaggleRowsBy(owner) == SelectSeq(KaggleRows, LAMBDA d : d.owner = owner)

KaggleText(owner) ==
    LET titled == SelectSeq(KaggleRowsBy(owner), LAMBDA d : Or(d.title, <<>>) # <<>>)
    IN Join(Sp, [i \in 1..Len(titled) |-> titled[i].title])

\* the papers the paper-index adapter reads
PWCPapers == [i \in 1..Len(world.pwc) |-> PWCPaper(world.pwc[i])]

\* C27: the score of every candidate an adapter returns is _score_match of
\* its text plus the bonus of its source: 0.3 per repository up to 5 for a
\* code-hosting account, 0.2 per listed model of the author up to 5, 0.3 per
\* dataset of the owner up to 5, 1.0 for a paper with a repository link and
\* nothing for one without.
C27_ScoreIsTextPlusBonus ==
    \A k \in 1..Len(returned) :
        LET cs == returned[k].cands
            a == returned[k].adapter
        IN /\ a = "github" =>
                  /\ Len(cs) = Len(GithubAccounts)
                  /\ \A i \in 1..Len(cs) :
                         cs[i].score =
                             score_match(GithubText(GithubAccounts[i]), terms)
                             + 3 * Capped(Len(GithubRepos(GithubAccounts[i])))
           /\ a = "huggingface" =>
                  \A i \in 1..Len(cs) :
                      cs[i].score =
                          score_match(Join(Sp, HFBlob(Take(HFModelsBy(cs[i].username), 5))),
                                      terms)
                          + 2 * Capped(Len(HFModelsBy(cs[i].username)))
           /\ a = "kaggle" =>
                  \A i \in 1..Len(cs) :
                      cs[i].score =
                          score_match(KaggleText(cs[i].username), terms)
                          + 3 * Capped(Len(KaggleRowsBy(cs[i].username)))
           /\ a = "paperswithcode" =>
                  \A i \in 1..Len(cs) :
                      \E j \in 1..Len(PWCPapers) :
                          \E n \in 1..Len(PWCPapers[j].authors) :
                              /\ cs[i].name = PWCPapers[j].authors[n].name
                              /\ cs[i].score =
                                     score_match(PWCPapers[j].title \o Sp \o cs[i].name, terms)
                                     + (IF Or(PWCPapers[j].repo_url, <<>>) # <<>>
                                        THEN 10 ELSE 0)

\* all adapters returned for answers with six repositories, six models of one
\* author, six datasets of one owner, a paper with and a paper without a
\* repository link
C27_Witness ==
    /\ pc = "boost"
    /\ failed = {}
    /\ Len(returned) = 5
    /\ \E i \in 1..Len(GithubAccounts) : Len(GithubRepos(GithubAccounts[i])) = 6
    /\ \E c \in Elems(Flatten(returned)) :
           c.source = "huggingface" /\ Len(HFModelsBy(c.username)) = 6
    /\ \E c \in Elems(Flatten(returned)) :
           c.source = "kaggle" /\ Len(KaggleRowsBy(c.username)) = 6
    /\ \E c, d \in Elems(Flatten(returned)) :
           /\ c.source = "paperswithcode" /\ d.source = "paperswithcode"
           /\ c.score >= d.score + 10

-----------------------------------------------------------------------------
\* how many authors of a paper become candidates
FirstThree(p) == IF Len(p.authors) > 3 THEN 3 ELSE Len(p.authors)

\* the number of candidates of the papers before the j-th
RECURSIVE PWCOffset(_)
PWCOffset(j) ==
    IF j = 1 THEN 0 ELSE PWCOffset(j - 1) + FirstThree(PWCPapers[j - 1])

\* C28: the model-hub adapter returns one candidate per author of the models
\* it reads, no two with the same username and none for a model without
\* author; the paper-index adapter returns, paper by paper, one candidate for
\* each of the first three authors and none for a later author.
C28_OnePerAuthor ==
    \A k \in 1..Len(returned) :
        LET cs == returned[k].cands
            a == returned[k].adapter
        IN /\ a = "huggingface" =>
                  LET authors == {HFAuthorOf(HFListed[i]) : i \in 1..Len(HFListed)} \ {<<>>}
                  IN /\ {cs[i].username : i \in 1..Len(cs)} = authors
                     /\ Len(cs) = Cardinality(authors)
           /\ a = "paperswithcode" =>
                  /\ Len(cs) = PWCOffset(Len(PWCPapers) + 1)
                  /\ \A j \in 1..Len(PWCPapers) :
                         \A n \in 1..FirstThree(PWCPapers[j]) :
                             cs[PWCOffset(j) + n].name = PWCPapers[j].authors[n].name

\* two authors for eight listed models, one of them without author; four
\* candidates for a paper of four authors and a paper of one
C28_Witness ==
    /\ pc = "boost"
    /\ failed = {}
    /\ Len(HFListed) = 8
    /\ \E i \in 1..Len(HFListed) : HFAuthorOf(HFListed[i]) = <<>>
    /\ \E k \in 1..Len(returned) :
           returned[k].adapter = "huggingface" /\ Len(returned[k].cands) = 2
    /\ \E j \in 1..Len(PWCPapers) : Len(PWCPapers[j].authors) = 4
    /\ \E k \in 1..Len(returned) :
           returned[k].adapter = "paperswithcode" /\ Len(returned[k].cands) = 4

-----------------------------------------------------------------------------
\* the first position of the combined list at which the key of c occurs
FirstOccurrence(c) ==
    CHOOSE i \in 1..Len(results) :
        /\ DedupKey(results[i]) = DedupKey(c)
        /\ \A j \in 1..(i - 1) : DedupKey(results[j]) # DedupKey(c)

\* C29: two candidates of the response with equal scores stand in the order
\* in which their keys first occur in the combined list, also when one of
\* them is a better duplicate that came later in that list than the other.
C29_TiesInKeyOrder ==
    (pc = "done" /\ response.status = 200) =>
        LET ranked == response.candidates IN
        \A i, j \in 1..Len(ranked) :
            (i < j /\ ranked[i].score = ranked[j].score)
                => FirstOccurrence(ranked[i]) < FirstOccurrence(ranked[j])

\* the candidate ranked first replaced an earlier duplicate of lower score; it
\* stands before a candidate of equal score that precedes it in the combined
\* list
C29_Witness ==
    /\ pc = "done"
    /\ Len(response.candidates) >= 2
    /\ response.candidates[1].score = response.candidates[2].score
    /\ \E m, n \in 1..Len(results) :
           /\ results[m] = response.candidates[1]
           /\ results[n] = response.candidates[2]
           /\ FirstOccurrence(results[m]) < n
           /\ n < m
           /\ \A l \in 1..Len(results) :
                  results[l] = response.candidates[1] => l > n

-----------------------------------------------------------------------------
\* the fields of a candidate other than its score
FrameFields ==
    {"source", "name", "username", "profile_url", "location",
     "public_email", "blog", "company", "evidence"}

\* candidate c is candidate r with the score unchanged or raised by 0.5
SameButScore(c, r) ==
    /\ \A f \in FrameFields : c[f] = r[f]
    /\ c.score \in {r.score, r.score + 5}

\* C30: every candidate of a 200 response is a candidate some adapter
\* returned in this request, equal to it in every field but the score, which
\* is the adapter's score or that score plus 0.5; and the response holds a
\* candidate no more often than the adapters returned it.
C30_AggregationFrame ==
    (pc = "done" /\ response.status = 200) =>
        LET raw == Flatten(returned)
            ranked == response.candidates
        IN \A i \in 1..Len(ranked) :
               /\ \E j \in 1..Len(raw) : SameButScore(ranked[i], raw[j])
               /\ Cardinality({k \in 1..Len(ranked) : SameButScore(ranked[k], ranked[i])
                                                       \/ SameButScore(ranked[i], ranked[k])})
                      <= Cardinality({j \in 1..Len(raw) : SameButScore(ranked[i], raw[j])})

\* a response that leaves out a returned candidate and holds one with 0.5
\* more than the adapter's score and one with the adapter's score, both with
\* evidence, the second with contact fields
C30_Witness ==
    /\ pc = "done"
    /\ response.status = 200
    /\ Len(response.candidates) < Len(Flatten(returned))
    /\ \E c, d \in Elems(response.candidates) :
           /\ c.evidence # <<>> /\ d.evidence # <<>>
           /\ d.blog # None /\ d.company # None
           /\ \E r \in Elems(Flatten(returned)) :
                  SameButScore(c, r) /\ c.score = r.score + 5
           /\ d \in Elems(Flatten(returned))

====
